---------------------------- MODULE Spec2Model ----------------------------
(***************************************************************************)
(* Statement ingestion and recurrence pipeline of paymentTracker:          *)
(*   - the recurrence evaluator   (services/recurrence.py)                 *)
(*   - the PDF normalizer cascade (services/pdf_parser.py)                 *)
(*   - the analysis orchestrator  (services/transaction_analyzer.py)       *)
(* Each part has its own specification over the part's variables.          *)
(***************************************************************************)
EXTENDS Integers, Sequences, FiniteSets, TLC

VARIABLES
    payment,        \* recurrence.py: the Payment row handed to payment_occurs_on_date
    check_date,     \* recurrence.py: the check_date argument (an ordinal), None before the call
    occurs,         \* recurrence.py: the boolean payment_occurs_on_date returned
    pdf_pc,         \* pdf_parser.py: where parse_pdf stands
    pdf_doc,        \* pdf_parser.py: what pdfplumber reports about `content`
    regex_out,      \* pdf_parser.py: what extract_transactions_from_text_regex did
    tables_out,     \* pdf_parser.py: what extract_tables_from_pdf did
    claude_out,     \* claude_service.py: what the Claude API did for call_claude
    all_transactions, \* pdf_parser.py: parse_pdf's all_transactions
    warnings,       \* pdf_parser.py: parse_pdf's warnings
    pdf_error,      \* pdf_parser.py: the exception parse_pdf raised, "" when none
    calls,          \* number of calls of each layer's function and of call_claude
    an_pc,          \* transaction_analyzer.py: where analyze_transactions stands
    transactions,   \* transaction_analyzer.py: the transactions argument
    currency,       \* transaction_analyzer.py: the currency argument
    ai_out,         \* claude_service.py: what the Claude API did for the analysis prompt
    llm_ret,        \* transaction_analyzer.py: what analyze_transactions_with_llm gave back
    an_result,      \* transaction_analyzer.py: what analyze_transactions raised or returned
    ai_calls,       \* number of call_claude calls made by the analysis run
    det_dates,      \* transaction_analyzer.py: detect_recurrence's dates argument
    det_result,     \* transaction_analyzer.py: what detect_recurrence returned
    val_pc,         \* claude_service.py: where the validation loop of analyze_transactions_with_llm stands
    val_items,      \* claude_service.py: raw_results, the items of the AI's array
    val_out,        \* claude_service.py: validated, the list returned
    csv_pc,         \* csv_parser.py: where parse_csv stands
    csv_rows,       \* csv_parser.py: rows, the cells csv.reader read, header first
    csv_columns,    \* csv_parser.py: columns, the index detect_columns gave each role
    csv_transactions, \* csv_parser.py: the transactions parse_csv returned
    csv_warnings,   \* csv_parser.py: the warnings parse_csv returned
    csv_error,      \* csv_parser.py: the message of the CSVParseError raised, "" when none
    rule_pc,        \* analyze_with_rules: start, done
    rule_txs,       \* its transactions argument
    rule_currency,  \* its currency argument
    rule_result,    \* what it raises and returns
    up_pc,          \* upload_statement: start, parsed, analyzed, done
    up_parse,       \* what parse_csv or parse_pdf does with the file
    up_currency,    \* current_user.default_currency
    up_ai,          \* what the AI does during the analysis
    up_analysis,    \* what analyze_transactions raised or returned
    up_response,    \* the HTTP response of the upload
    scan_pc,        \* extract_transactions_from_text_regex: scanning, done
    scan_lines,     \* lines, the text split at line ends
    scan_i,         \* i, the index of the line at hand, from 0
    in_withdrawals, \* in_withdrawals
    in_deposits,    \* in_deposits
    scan_transactions, \* transactions, what the scan has appended
    scan_src,       \* for each appended transaction, the index of the dated line it came from
    rl_pc,          \* the re-linking of one AI item: start, done
    rl_txs,         \* transactions, the input of analyze_transactions
    rl_descs,       \* the original_descriptions the AI item declares
    rl_matching,    \* matching_txs, the transactions the item was linked to
    rl_result,      \* what analyze_transactions raised or returned
    amt_pc,         \* parse_amount: start, done
    amt_parts,      \* the amount text by its parts: sign, currency sign, digit groups, separators, trailing sign
    amt_text,       \* amount_str, the text as a sequence of characters
    amt_csv,        \* what csv_parser.parse_amount returned
    amt_pdf         \* what pdf_parser.parse_amount returned

occursVars == <<payment, check_date, occurs>>

pdfVars == <<pdf_pc, pdf_doc, regex_out, tables_out, claude_out,
             all_transactions, warnings, pdf_error, calls>>

analyzeVars == <<an_pc, transactions, currency, ai_out, llm_ret, an_result, ai_calls>>

detectVars == <<det_dates, det_result>>

validateVars == <<val_pc, val_items, val_out>>

csvVars == <<csv_pc, csv_rows, csv_columns, csv_transactions, csv_warnings, csv_error>>

rulesVars == <<rule_pc, rule_txs, rule_currency, rule_result>>

uploadVars == <<up_pc, up_parse, up_currency, up_ai, up_analysis, up_response>>

scanVars == <<scan_pc, scan_lines, scan_i, in_withdrawals, in_deposits, scan_transactions, scan_src>>

relinkVars == <<rl_pc, rl_txs, rl_descs, rl_matching, rl_result>>

amountVars == <<amt_pc, amt_parts, amt_text, amt_csv, amt_pdf>>

vars == <<payment, check_date, occurs, pdf_pc, pdf_doc, regex_out, tables_out,
          claude_out, all_transactions, warnings, pdf_error, calls,
          an_pc, transactions, currency, ai_out, llm_ret, an_result, ai_calls,
          det_dates, det_result,
          val_pc, val_items, val_out,
          csv_pc, csv_rows, csv_columns, csv_transactions, csv_warnings, csv_error,
          rule_pc, rule_txs, rule_currency, rule_result,
          up_pc, up_parse, up_currency, up_ai, up_analysis, up_response,
          scan_pc, scan_lines, scan_i, in_withdrawals, in_deposits, scan_transactions, scan_src,
          rl_pc, rl_txs, rl_descs, rl_matching, rl_result,
          amt_pc, amt_parts, amt_text, amt_csv, amt_pdf>>

(***************************************************************************)
(* Python values                                                           *)
(***************************************************************************)
\* Python's None for the nullable integer and date columns.
None == 0 - 1

Min(a, b) == IF a <= b THEN a ELSE b

Max(a, b) == IF a >= b THEN a ELSE b

(***************************************************************************)
(* datetime.date, as its proleptic Gregorian ordinal (date.toordinal())    *)
(***************************************************************************)
\* Years the model's dates range over: FirstYear .. FirstYear + YearSpan.
YearSpan == 2

Years == 2023 .. (2023 + YearSpan)

IsLeap(y) == (y % 4 = 0) /\ ((y % 100 # 0) \/ (y % 400 = 0))

\* calendar.monthrange(year, month)[1]
DaysInMonth(y, m) ==
    IF m = 2 THEN (IF IsLeap(y) THEN 29 ELSE 28)
    ELSE IF m \in {4, 6, 9, 11} THEN 30 ELSE 31

DaysBeforeYear(y) ==
    (y - 1) * 365 + ((y - 1) \div 4) - ((y - 1) \div 100) + ((y - 1) \div 400)

RECURSIVE DaysBeforeMonth(_, _)
DaysBeforeMonth(y, m) ==
    IF m = 1 THEN 0 ELSE DaysBeforeMonth(y, m - 1) + DaysInMonth(y, m - 1)

\* date(y, m, d).toordinal()
Ord(y, m, d) == DaysBeforeYear(y) + DaysBeforeMonth(y, m) + d

FirstOrd == Ord(2023, 1, 1)

LastOrd == Ord(2023 + YearSpan, 12, 31)

Dates == FirstOrd .. LastOrd

\* date.year, date.month, date.day of an ordinal
YearOf(o) == CHOOSE y \in Years : DaysBeforeYear(y) < o /\ o <= DaysBeforeYear(y + 1)

MonthOf(o) ==
    LET y == YearOf(o)
        n == o - DaysBeforeYear(y)
    IN  CHOOSE m \in 1..12 :
            DaysBeforeMonth(y, m) < n /\ n <= DaysBeforeMonth(y, m) + DaysInMonth(y, m)

DayOf(o) == o - DaysBeforeYear(YearOf(o)) - DaysBeforeMonth(YearOf(o), MonthOf(o))

\* date.weekday(): Monday is 0
Weekday(o) == (o + 6) % 7

(***************************************************************************)
(* services/recurrence.py                                                  *)
(***************************************************************************)
Recurrences == {"MONTHLY", "WEEKLY", "BIWEEKLY", "QUARTERLY", "ANNUAL", "ONETIME"}

get_last_day_of_month(year, month) == DaysInMonth(year, month)

\* `payment.day_of_month or payment.start_date.day`: None and 0 are both falsy
AnchorDay(p) ==
    IF p.day_of_month = None \/ p.day_of_month = 0
    THEN DayOf(p.start_date) ELSE p.day_of_month

\* `payment.day_of_week if payment.day_of_week is not None else start_date.weekday()`
AnchorWeekday(p) ==
    IF p.day_of_week # None THEN p.day_of_week ELSE Weekday(p.start_date)

\* MONTHLY without the clamp to the month's length.
OccursMonthlyNoClamp(p, x) == DayOf(x) = AnchorDay(p)

OccursMonthly(p, x) ==
    LET last_day   == get_last_day_of_month(YearOf(x), MonthOf(x))
        target_day == Min(AnchorDay(p), last_day)
    IN  DayOf(x) = target_day

OccursWeekly(p, x) == Weekday(x) = AnchorWeekday(p)

\* BIWEEKLY that drops the even-week test (fires every week).
OccursBiweeklyEveryWeek(p, x) == Weekday(x) = AnchorWeekday(p)

OccursBiweekly(p, x) ==
    IF Weekday(x) # AnchorWeekday(p) THEN FALSE
    ELSE LET days_diff  == x - p.start_date
             weeks_diff == days_diff \div 7
         IN  weeks_diff >= 0 /\ weeks_diff % 2 = 0

\* QUARTERLY whose month distance forgets the year term.
OccursQuarterlyNoYear(p, x) ==
    LET last_day   == get_last_day_of_month(YearOf(x), MonthOf(x))
        target_day == Min(AnchorDay(p), last_day)
    IN  IF DayOf(x) # target_day THEN FALSE
        ELSE LET month_diff == MonthOf(x) - MonthOf(p.start_date)
             IN  month_diff >= 0 /\ month_diff % 3 = 0

OccursQuarterly(p, x) ==
    LET last_day   == get_last_day_of_month(YearOf(x), MonthOf(x))
        target_day == Min(AnchorDay(p), last_day)
    IN  IF DayOf(x) # target_day THEN FALSE
        ELSE LET month_diff == (YearOf(x) - YearOf(p.start_date)) * 12
                                 + (MonthOf(x) - MonthOf(p.start_date))
             IN  month_diff >= 0 /\ month_diff % 3 = 0

\* ANNUAL that compares the anchor day unclamped.
OccursAnnualNoClamp(p, x) ==
    MonthOf(x) = MonthOf(p.start_date) /\ DayOf(x) = AnchorDay(p)

OccursAnnual(p, x) ==
    IF MonthOf(p.start_date) = 2 /\ AnchorDay(p) = 29
    THEN MonthOf(x) = 2 /\ DayOf(x) = get_last_day_of_month(YearOf(x), 2)
    ELSE LET last_day   == get_last_day_of_month(YearOf(x), MonthOf(p.start_date))
             target_day == Min(AnchorDay(p), last_day)
         IN  MonthOf(x) = MonthOf(p.start_date) /\ DayOf(x) = target_day

\* The active period test without its end_date half.
OutOfBoundsNoEnd(p, x) == x < p.start_date

\* The active period test that opens payment_occurs_on_date.
OutOfBounds(p, x) ==
    \/ x < p.start_date
    \/ (p.end_date # None /\ x > p.end_date)

payment_occurs_on_date(p, x) ==
    IF OutOfBounds(p, x) THEN FALSE
    ELSE CASE p.recurrence = "ONETIME"   -> x = p.start_date
           [] p.recurrence = "MONTHLY"   -> OccursMonthly(p, x)
           [] p.recurrence = "WEEKLY"    -> OccursWeekly(p, x)
           [] p.recurrence = "BIWEEKLY"  -> OccursBiweekly(p, x)
           [] p.recurrence = "QUARTERLY" -> OccursQuarterly(p, x)
           [] p.recurrence = "ANNUAL"    -> OccursAnnual(p, x)
           [] OTHER                      -> FALSE

\* Start dates of the definitions drawn: month ends, a leap day, February
\* dates, a year end; every weekday offset arises through day_of_week.
StartDates ==
    { Ord(2023, 1, 31), Ord(2023, 2, 10), Ord(2023, 11, 30),
      Ord(2024, 1, 1),  Ord(2024, 2, 29), Ord(2024, 12, 15) }

\* end_date: unset, or this many days after start_date.
EndGaps == {None, 45, 400}

DayOfMonthAnchors == {None} \cup (1..31)

\* The anchors tried for QUARTERLY and ANNUAL: the month-end cases and two plain days.
EdgeDayAnchors == {None, 1, 15, 28, 29, 30, 31}

DayOfWeekAnchors == {None} \cup (0..6)

Payments ==
    { [recurrence |-> r, day_of_month |-> dom, day_of_week |-> dow,
       start_date |-> s,
       end_date   |-> IF g = None THEN None ELSE Min(s + g, LastOrd)] :
        r \in Recurrences, dom \in DayOfMonthAnchors, dow \in DayOfWeekAnchors,
        s \in StartDates, g \in EndGaps }

\* The anchor column the recurrence type does not read is left unset.
PaymentRows ==
    { p \in Payments :
        /\ p.recurrence \in {"WEEKLY", "BIWEEKLY", "ONETIME"} => p.day_of_month = None
        /\ p.recurrence \in {"MONTHLY", "QUARTERLY", "ANNUAL", "ONETIME"} => p.day_of_week = None
        /\ p.recurrence \in {"QUARTERLY", "ANNUAL"} => p.day_of_month \in EdgeDayAnchors }

(***************************************************************************)
(* Python exceptions and the values the PDF cascade passes around          *)
(***************************************************************************)
NoExc == ""

\* `except ClaudeError`: ClaudeUnavailableError is its subclass.
IsClaudeError(exc) == exc \in {"ClaudeError", "ClaudeUnavailableError"}

PyStr(v) == [type |-> "str", val |-> <<v>>]

PyTuple(a, b) == [type |-> "tuple", val |-> <<a, b>>]

\* Most rows of a table, items of an AI answer and transactions of a text scan drawn.
MaxRows == 2

MaxItems == 2

MaxTextTxs == 2

SeqsUpTo(S, n) == UNION { [1..k -> S] : k \in 0..n }

RECURSIVE InsertByDate(_, _)
InsertByDate(sorted, t) ==
    IF sorted = <<>> THEN <<t>>
    ELSE IF t.date < Head(sorted).date THEN <<t>> \o sorted
    ELSE <<Head(sorted)>> \o InsertByDate(Tail(sorted), t)

\* list.sort(key=lambda t: t.date): stable, ascending
RECURSIVE SortByDate(_)
SortByDate(txs) ==
    IF txs = <<>> THEN <<>>
    ELSE InsertByDate(SortByDate(SubSeq(txs, 1, Len(txs) - 1)), txs[Len(txs)])

ParsedTransaction(d, desc, amt) == [date |-> d, description |-> desc, amount |-> amt]

\* An abs() that keeps the sign.
KeepsSign(n) == n

\* abs()
Abs(n) == IF n < 0 THEN 0 - n ELSE n

(***************************************************************************)
(* services/claude_service.py: call_claude, extract_json_from_response     *)
(***************************************************************************)
\* What the API does for one call: no key / authentication / timeout /
\* connection ("unavailable"), any other failure ("error"), or an answer.
\* An answer's text holds no bracket pair, an undecodable array, or a JSON array.
JsonShapes == {"nobrackets", "invalid", "array"}

AIUsageStats == [input_tokens |-> 10, output_tokens |-> 5, total_tokens |-> 15]

ClaudeAnswer(shape, items) ==
    [kind |-> "ok", json |-> shape, items |-> items]

ClaudeFailure(kind) == [kind |-> kind, json |-> "nobrackets", items |-> <<>>]

NoClaudeCall == [kind |-> "none", json |-> "nobrackets", items |-> <<>>]

\* call_claude: raises, or returns the pair (content, usage).
call_claude(o) ==
    CASE o.kind = "unavailable" -> [exc |-> "ClaudeUnavailableError", ret |-> PyTuple(o, AIUsageStats)]
      [] o.kind = "error"       -> [exc |-> "ClaudeError", ret |-> PyTuple(o, AIUsageStats)]
      [] OTHER                  -> [exc |-> NoExc, ret |-> PyTuple(o, AIUsageStats)]

\* extract_json_from_response applied to the text of an answer.
JsonArrayOf(content) ==
    IF content.json = "array" THEN content.items ELSE <<>>

\* extract_json_from_response(response): re.sub needs a str and raises
\* TypeError on anything else.
extract_json_from_response(response) ==
    IF response.type # "str"
    THEN [exc |-> "TypeError", list |-> <<>>]
    ELSE [exc |-> NoExc, list |-> JsonArrayOf(response.val[1])]

(***************************************************************************)
(* services/pdf_parser.py                                                  *)
(***************************************************************************)
MinTextLen == 50

LlmMaxChars == 15000

\* pdfplumber's view of the bytes: empty content, how open() ends, the page
\* count, how text extraction ends, the length of the stripped text.
PdfDocFields ==
    [ empty    : BOOLEAN,
      open     : {"ok", "encrypted", "error"},
      pages    : 0..2,
      extract  : {"ok", "error"},
      text_len : {0, MinTextLen - 1, MinTextLen, LlmMaxChars, LlmMaxChars + 1} ]

\* The documents that exist: nothing is read of empty bytes or of a file that
\* does not open; no pages give no text; text extraction can only fail on a
\* page after the first, which the open check has read.
PdfDocs ==
    { d \in PdfDocFields :
        /\ d.empty => d.open = "error"
        /\ d.open # "ok" => (d.pages = 0 /\ d.extract = "error")
        /\ d.pages = 0 => d.text_len = 0
        /\ d.extract = "error" => d.text_len = 0
        /\ (d.open = "ok" /\ d.extract = "error") => d.pages >= 2 }

NoDoc == [empty |-> TRUE, open |-> "ok", pages |-> 0, extract |-> "ok", text_len |-> 0]

\* Lines 412-446 without the page-count test.
DocumentErrorNoPageTest(doc) ==
    IF doc.empty THEN "PDF file is empty"
    ELSE IF doc.open = "encrypted" THEN "PDF is encrypted"
    ELSE IF doc.open = "error" THEN "Failed to open PDF"
    ELSE IF doc.extract = "error" THEN "Failed to extract text from PDF"
    ELSE IF doc.text_len < MinTextLen THEN "Could not extract text from PDF"
    ELSE NoExc

\* Lines 412-446: the PDFParseError raised before the layers, NoExc when none.
DocumentError(doc) ==
    IF doc.empty THEN "PDF file is empty"
    ELSE IF doc.open = "encrypted" THEN "PDF is encrypted"
    ELSE IF doc.open = "error" THEN "Failed to open PDF"
    ELSE IF doc.pages = 0 THEN "PDF contains no pages"
    ELSE IF doc.extract = "error" THEN "Failed to extract text from PDF"
    ELSE IF doc.text_len < MinTextLen THEN "Could not extract text from PDF"
    ELSE NoExc

\* Descriptions as they stand in the document, per place they are read from.
TextDescriptions == {"NETFLIX.COM", "DUKE ENERGY"}

TableDescriptions == {"CITY WATER", "GYM ID:77"}

AiDescriptions == {"Spotify", "T-Mobile"}

\* clean_description on the descriptions drawn: ` ID:77` is a bank code and
\* a run of ten digits or more is removed.
clean_description(desc) ==
    CASE desc = "GYM ID:77"  -> "GYM"
      [] desc = "1234567890" -> ""
      [] OTHER               -> desc

\* What the line scan of the text yields: it raises, or returns transactions.
TextTransactions ==
    { ParsedTransaction(d, desc, 1599) : d \in 1..2, desc \in TextDescriptions }

TextScanOutcomes ==
    { [exc |-> "ValueError", txs |-> <<>>] }
        \cup { [exc |-> NoExc, txs |-> t] : t \in SeqsUpTo(TextTransactions, MaxTextTxs) }

NoScan == [exc |-> NoExc, txs |-> <<>>]

\* A table row by what the table layer reads of it: its cell count, what
\* parse_date makes of the first cell, the second cell, and what parse_amount
\* makes of the last cell (None: no amount).
TableRows ==
    { [cells |-> 1, date |-> 1,    desc |-> "CITY WATER", amount |-> 0 - 500],
      [cells |-> 3, date |-> None, desc |-> "CITY WATER", amount |-> 0 - 500],
      [cells |-> 3, date |-> 2,    desc |-> "CITY WATER", amount |-> 0 - 500],
      [cells |-> 3, date |-> 1,    desc |-> "GYM ID:77",  amount |-> 0 - 700],
      [cells |-> 3, date |-> 1,    desc |-> "GYM ID:77",  amount |-> 500],
      [cells |-> 3, date |-> 1,    desc |-> "CITY WATER", amount |-> 0],
      [cells |-> 3, date |-> 1,    desc |-> "CITY WATER", amount |-> None] }

\* extract_tables_from_pdf keeps the tables of more than one row.
Tables == { t \in SeqsUpTo(TableRows, MaxRows) : Len(t) > 1 }

TableOutcomes ==
    { [exc |-> "PDFParseError", tables |-> <<>>], [exc |-> NoExc, tables |-> <<>>] }
        \cup { [exc |-> NoExc, tables |-> <<t>>] : t \in Tables }

NoTables == [exc |-> NoExc, tables |-> <<>>]

\* Lines 469-489 for one row: the transaction appended, or none.
RowTransactions(row) ==
    IF row.cells < 2 THEN <<>>
    ELSE IF row.date = None THEN <<>>
    ELSE IF row.amount # None /\ row.amount # 0 /\ row.amount < 0
         THEN <<ParsedTransaction(row.date, clean_description(row.desc), Abs(row.amount))>>
         ELSE <<>>

RECURSIVE TableTransactions(_)
TableTransactions(table) ==
    IF table = <<>> THEN <<>>
    ELSE RowTransactions(Head(table)) \o TableTransactions(Tail(table))

RECURSIVE TablesTransactions(_)
TablesTransactions(tables) ==
    IF tables = <<>> THEN <<>>
    ELSE TableTransactions(Head(tables)) \o TablesTransactions(Tail(tables))

\* An item of the AI's array by what lines 366-379 read of it: whether it is
\* a dict, parse_date of its date, its stripped description, parse_amount of
\* its amount.
AiItems ==
    { [dict |-> FALSE, date |-> 1,    description |-> "Spotify",  amount |-> 999],
      [dict |-> TRUE,  date |-> None, description |-> "Spotify",  amount |-> 999],
      [dict |-> TRUE,  date |-> 1,    description |-> "",         amount |-> 999],
      [dict |-> TRUE,  date |-> 1,    description |-> "Spotify",  amount |-> None],
      [dict |-> TRUE,  date |-> 1,    description |-> "Spotify",  amount |-> 0],
      [dict |-> TRUE,  date |-> 1,    description |-> "Spotify",  amount |-> 0 - 999],
      [dict |-> TRUE,  date |-> 2,    description |-> "Spotify",  amount |-> 999],
      [dict |-> TRUE,  date |-> 1,    description |-> "T-Mobile", amount |-> 7000] }

ClaudeOutcomes ==
    { ClaudeFailure("unavailable"), ClaudeFailure("error"),
      ClaudeAnswer("nobrackets", <<>>), ClaudeAnswer("invalid", <<>>) }
        \cup { ClaudeAnswer("array", items) : items \in SeqsUpTo(AiItems, MaxItems) }

\* Lines 366-386 for one item.
ItemTransactions(item) ==
    IF ~item.dict THEN <<>>
    ELSE IF item.date = None THEN <<>>
    ELSE IF item.description = "" THEN <<>>
    ELSE IF item.amount = None \/ item.amount = 0 \/ item.amount <= 0 THEN <<>>
    ELSE <<ParsedTransaction(item.date, item.description, Abs(item.amount))>>

RECURSIVE ItemsTransactions(_)
ItemsTransactions(items) ==
    IF items = <<>> THEN <<>>
    ELSE ItemTransactions(Head(items)) \o ItemsTransactions(Tail(items))

\* extract_transactions_with_llm(text) when the API does `o`:
\* [exc: what it raises, txs, warnings, claude: calls of call_claude made].
extract_transactions_with_llm(text_len, o) ==
    IF text_len < MinTextLen
    THEN [exc |-> NoExc, txs |-> <<>>, claude |-> 0,
          warnings |-> <<"PDF text too short to contain transactions">>]
    ELSE
      LET truncated == IF text_len > LlmMaxChars
                       THEN <<"PDF text was truncated due to length">> ELSE <<>>
          called    == call_claude(o)
      IN  IF called.exc # NoExc
          THEN \* raised by `await call_claude(prompt)`: a ClaudeError, caught at line 393
               [exc |-> NoExc, txs |-> <<>>, claude |-> 1,
                warnings |-> <<"LLM extraction failed">>]
          ELSE
            LET response    == called.ret    \* line 361 binds the whole pair
                raw_results == extract_json_from_response(response)
            IN  IF raw_results.exc # NoExc
                THEN IF IsClaudeError(raw_results.exc)
                     THEN [exc |-> NoExc, txs |-> <<>>, claude |-> 1,
                           warnings |-> <<"LLM extraction failed">>]
                     ELSE [exc |-> raw_results.exc, txs |-> <<>>, claude |-> 1,
                           warnings |-> <<>>]
                ELSE
                  LET extracted == ItemsTransactions(raw_results.list)
                  IN  [exc |-> NoExc, txs |-> extracted, claude |-> 1,
                       warnings |-> truncated \o
                          (IF extracted = <<>>
                           THEN <<"LLM could not extract transactions from PDF text">>
                           ELSE <<>>)]

\* `if all_transactions:` that never takes the early return.
NeverReturns(txs) == FALSE

\* `if all_transactions:` at lines 458 and 493: return what the layer found.
LayerReturns(txs) == txs # <<>>

\* An `except` clause that catches nothing.
CatchesNothing(exc) == FALSE

\* `except Exception as e` around each layer (lines 454, 490, 504).
CatchesException(exc) == exc # NoExc

(***************************************************************************)
(* services/transaction_analyzer.py and the analysis half of               *)
(* services/claude_service.py.  Money is counted in thousandths of the     *)
(* currency unit, so that Decimal amounts below one cent exist.            *)
(***************************************************************************)
\* Most transactions of a statement and items of an AI analysis drawn.
MaxTxs == 3

MaxAiItems == 2

\* The descriptions drawn, with what the regexes of the module make of them:
\* normalize_description (lower case, trailing reference number stripped),
\* categorize_by_keywords ("" is an exclusion match) and clean_merchant_name.
normalize_description(desc) ==
    CASE desc \in {"NETFLIX.COM", "NETFLIX.COM #12345"} -> "netflix.com"
      [] desc = "ATM WITHDRAWAL" -> "atm withdrawal"
      [] desc = "JOES PLUMBING"  -> "joes plumbing"
      [] desc = "CITY POWER"     -> "city power"
      [] desc = "netflix"        -> "netflix"
      [] desc = "zzz"            -> "zzz"
      [] desc = "SHELL GAS STATION"   -> "shell gas station"
      [] desc = "AMAZON PRIME"        -> "amazon prime"
      [] desc = "AMAZON MARKETPLACE"  -> "amazon marketplace"
      [] desc = "HOME LOAN INSURANCE" -> "home loan insurance"
      [] desc = "VANGUARD INSURANCE"  -> "vanguard insurance"
      [] desc = "VERIZON INSURANCE"   -> "verizon insurance"
      [] desc = "UBER ONE MEMBERSHIP" -> "uber one membership"
      [] desc = "12345"               -> ""
      [] desc = "NETFLIX.COM MONTHLY" -> "netflix.com monthly"
      [] OTHER                   -> desc

\* EXCLUDE_PATTERNS (lines 48-54)
EXCLUDE_PATTERNS ==
    { "atm", "withdrawal", "transfer", "payment.*received", "deposit",
      "grocery", "groceries", "supermarket", "walmart", "target",
      "restaurant", "cafe", "coffee", "starbucks", "mcdonald",
      "gas.*station", "fuel", "petrol", "uber", "lyft", "taxi",
      "amazon(?!.*prime)", "ebay", "paypal.*transfer", "venmo", "zelle" }

\* CATEGORY_KEYWORDS (lines 22-45), in the order the dict is written.
CATEGORY_KEYWORDS ==
    << [category |-> "LOAN",
        patterns |-> { "loan", "mortgage", "emi", "finance", "lending", "credit.*payment",
                       "car.*payment", "auto.*loan", "home.*loan", "personal.*loan" }],
       [category |-> "SUBSCRIPTION",
        patterns |-> { "netflix", "spotify", "hulu", "disney", "hbo", "amazon.*prime",
                       "apple.*music", "youtube.*premium", "gym", "fitness", "membership",
                       "subscription", "adobe", "microsoft.*365", "dropbox", "icloud" }],
       [category |-> "INVESTMENT",
        patterns |-> { "sip", "mutual.*fund", "invest", "401k", "etrade", "fidelity",
                       "vanguard", "schwab", "robinhood", "zerodha", "groww" }],
       [category |-> "INSURANCE",
        patterns |-> { "insurance", "geico", "state.*farm", "allstate", "progressive",
                       "liberty.*mutual", "lic", "policy.*premium", "health.*plan" }],
       [category |-> "UTILITY",
        patterns |-> { "electric", "water", "gas", "internet", "comcast", "verizon",
                       "at&t", "at.t", "t-mobile", "tmobile", "spectrum", "xfinity",
                       "utility", "power", "energy", "broadband", "wifi", "phone.*bill" }] >>

\* The patterns of both tables that re.search finds in description.lower(),
\* for the descriptions drawn.
Search(description) ==
    CASE description \in {"NETFLIX.COM", "NETFLIX.COM #12345", "netflix"} -> {"netflix"}
      [] description = "ATM WITHDRAWAL"      -> {"atm", "withdrawal"}
      [] description = "CITY POWER"          -> {"power"}
      [] description = "SHELL GAS STATION"   -> {"gas.*station", "gas"}
      [] description = "AMAZON PRIME"        -> {"amazon.*prime"}
      [] description = "AMAZON MARKETPLACE"  -> {"amazon(?!.*prime)"}
      [] description = "HOME LOAN INSURANCE" -> {"loan", "home.*loan", "insurance"}
      [] description = "VANGUARD INSURANCE"  -> {"vanguard", "insurance"}
      [] description = "VERIZON INSURANCE"   -> {"insurance", "verizon"}
      [] description = "UBER ONE MEMBERSHIP" -> {"uber", "membership"}
      [] OTHER                               -> {}

\* The loop over CATEGORY_KEYWORDS.items() (lines 105-108).
RECURSIVE FirstCategory(_, _)
FirstCategory(found, categories) ==
    IF categories = <<>> THEN "OTHER"
    ELSE IF Head(categories).patterns \cap found # {} THEN Head(categories).category
    ELSE FirstCategory(found, Tail(categories))

\* A classifier that looks at the category keywords before the exclusions.
KeywordsBeforeExclusions(description) ==
    LET category == FirstCategory(Search(description), CATEGORY_KEYWORDS)
    IN  IF category # "OTHER" THEN category
        ELSE IF Search(description) \cap EXCLUDE_PATTERNS # {} THEN "" ELSE "OTHER"

\* categorize_by_keywords: "" is an exclusion match.
categorize_by_keywords(description) ==
    IF Search(description) \cap EXCLUDE_PATTERNS # {} THEN ""
    ELSE FirstCategory(Search(description), CATEGORY_KEYWORDS)

clean_merchant_name(desc) ==
    CASE desc = "NETFLIX.COM"        -> "Netflix.Com"
      [] desc = "NETFLIX.COM #12345" -> "Netflix.Com #12345"
      [] desc = "ATM WITHDRAWAL"     -> "Atm Withdrawal"
      [] desc = "JOES PLUMBING"      -> "Joes Plumbing"
      [] desc = "CITY POWER"         -> "City Power"
      [] desc = "SHELL GAS STATION"   -> "Shell Gas Station"
      [] desc = "AMAZON PRIME"        -> "Amazon Prime"
      [] desc = "AMAZON MARKETPLACE"  -> "Amazon Marketplace"
      [] desc = "HOME LOAN INSURANCE" -> "Home Loan Insurance"
      [] desc = "VANGUARD INSURANCE"  -> "Vanguard Insurance"
      [] desc = "VERIZON INSURANCE"   -> "Verizon Insurance"
      [] desc = "UBER ONE MEMBERSHIP" -> "Uber One Membership"
      [] OTHER                       -> desc

\* Python's `a in b` on the normalized strings drawn.
IsSubstring(a, b) ==
    \/ a = b
    \/ a = ""
    \/ (a = "netflix" /\ b \in {"netflix.com", "netflix.com monthly"})
    \/ (a = "netflix.com" /\ b = "netflix.com monthly")

Tx(d, desc, amt) ==
    [date |-> d, description |-> desc, amount |-> amt, original_description |-> desc]

\* The raw transactions a statement can hold: a monthly subscription whose
\* third line carries a reference number, an excluded withdrawal, an
\* unclassified merchant seen a week apart, and amounts below one cent.
TxCatalogue ==
    { Tx(Ord(2024, 1, 15), "NETFLIX.COM", 15990),
      Tx(Ord(2024, 2, 15), "NETFLIX.COM", 15990),
      Tx(Ord(2024, 3, 14), "NETFLIX.COM #12345", 17990),
      Tx(Ord(2024, 1, 20), "ATM WITHDRAWAL", 100000),
      Tx(Ord(2024, 1, 22), "JOES PLUMBING", 250000),
      Tx(Ord(2024, 1, 29), "JOES PLUMBING", 4),
      Tx(Ord(2024, 2, 1),  "CITY POWER", 4) }

Currencies == {"USD", "INR"}

RECURSIVE SeqToSet(_)
SeqToSet(q) == IF q = <<>> THEN {} ELSE {Head(q)} \cup SeqToSet(Tail(q))

RECURSIVE SumOf(_)
SumOf(q) == IF q = <<>> THEN 0 ELSE Head(q) + SumOf(Tail(q))

RECURSIVE MapDates(_)
MapDates(txs) == IF txs = <<>> THEN <<>> ELSE <<Head(txs).date>> \o MapDates(Tail(txs))

RECURSIVE MapAmounts(_)
MapAmounts(txs) == IF txs = <<>> THEN <<>> ELSE <<Head(txs).amount>> \o MapAmounts(Tail(txs))

SetMin(S) == CHOOSE x \in S : \A y \in S : x <= y

SetMax(S) == CHOOSE x \in S : \A y \in S : x >= y

Count(q, v) == Cardinality({ i \in 1..Len(q) : q[i] = v })

\* The elements of S in ascending order.
RECURSIVE Ascending(_)
Ascending(S) == IF S = {} THEN <<>> ELSE <<SetMin(S)>> \o Ascending(S \ {SetMin(S)})

\* The first value in place of a most frequent one.
FirstValue(values, tie) == values[1]

\* max(set(values), key=values.count): a most frequent value; which one of
\* several is the first the set's iteration yields, drawn here by `tie`.
MostFrequent(values, tie) ==
    LET S     == SeqToSet(values)
        top   == SetMax({ Count(values, v) : v \in S })
        modes == Ascending({ v \in S : Count(values, v) = top })
    IN  modes[(tie % Len(modes)) + 1]

RECURSIVE MapWeekday(_)
MapWeekday(ds) == IF ds = <<>> THEN <<>> ELSE <<Weekday(Head(ds))>> \o MapWeekday(Tail(ds))

RECURSIVE MapDay(_)
MapDay(ds) == IF ds = <<>> THEN <<>> ELSE <<DayOf(Head(ds))>> \o MapDay(Tail(ds))

RECURSIVE InsertDate(_, _)
InsertDate(sorted, d) ==
    IF sorted = <<>> THEN <<d>>
    ELSE IF d < Head(sorted) THEN <<d>> \o sorted
    ELSE <<Head(sorted)>> \o InsertDate(Tail(sorted), d)

\* A detect_recurrence that takes the dates in the order given.
AsGiven(dates) == dates

\* sorted(dates)
RECURSIVE SortedDates(_)
SortedDates(dates) ==
    IF dates = <<>> THEN <<>>
    ELSE InsertDate(SortedDates(SubSeq(dates, 1, Len(dates) - 1)), dates[Len(dates)])

\* Lines 126-129: the gaps in days between consecutive sorted dates.
Intervals(sorted) == [i \in 1..(Len(sorted) - 1) |-> sorted[i + 1] - sorted[i]]

\* detect_recurrence(dates): <<recurrence, day_of_month, day_of_week>>.
\* avg_interval = sum(intervals) / len(intervals) is compared with the band
\* edges by cross-multiplication, which is exact on these integers.
detect_recurrence(dates, tie) ==
    IF Len(dates) < 2 THEN <<"ONETIME", None, None>>
    ELSE
      LET sorted == SortedDates(dates)
          total  == SumOf(Intervals(sorted))
          n      == Len(Intervals(sorted))
          dow    == MostFrequent(MapWeekday(sorted), tie)
          dom    == MostFrequent(MapDay(sorted), tie)
      IN  IF 5 * n <= total /\ total <= 9 * n THEN <<"WEEKLY", None, dow>>
          ELSE IF 12 * n <= total /\ total <= 16 * n THEN <<"BIWEEKLY", None, dow>>
          ELSE IF 25 * n <= total /\ total <= 35 * n THEN <<"MONTHLY", dom, None>>
          ELSE IF 85 * n <= total /\ total <= 100 * n THEN <<"QUARTERLY", dom, None>>
          ELSE IF 350 * n <= total /\ total <= 380 * n THEN <<"ANNUAL", DayOf(sorted[1]), None>>
          ELSE <<"MONTHLY", dom, None>>

\* The keys of group_transactions in insertion order; an empty key is skipped.
RECURSIVE GroupKeys(_, _)
GroupKeys(txs, seen) ==
    IF txs = <<>> THEN <<>>
    ELSE LET key == normalize_description(Head(txs).description)
         IN  IF key = "" \/ key \in seen THEN GroupKeys(Tail(txs), seen)
             ELSE <<key>> \o GroupKeys(Tail(txs), seen \cup {key})

RECURSIVE KeyMembers(_, _)
KeyMembers(txs, key) ==
    IF txs = <<>> THEN <<>>
    ELSE (IF normalize_description(Head(txs).description) = key THEN <<Head(txs)>> ELSE <<>>)
            \o KeyMembers(Tail(txs), key)

\* group_transactions: the groups as (key, members) in insertion order.
group_transactions(txs) ==
    LET keys == GroupKeys(txs, {})
    IN  [i \in 1..Len(keys) |-> [key |-> keys[i], txs |-> KeyMembers(txs, keys[i])]]

\* round(Decimal, 2) of total/count thousandths, in hundredths: half to even.
RoundedCents(total, count) ==
    LET den == 10 * count
        q   == total \div den
        r   == total % den
    IN  IF 2 * r < den THEN q
        ELSE IF 2 * r > den THEN q + 1
        ELSE IF q % 2 = 0 THEN q ELSE q + 1

\* min(0.9, 0.5 + len(txs) * 0.1), in hundredths
RuleConfidence(n) == Min(90, 50 + n * 10)

\* Lines 192-203: the group is neither excluded nor a single unclassified line.
GroupKept(g) ==
    LET category == categorize_by_keywords(g.txs[1].description)
    IN  /\ category # ""
        /\ ~(Len(g.txs) < 2 /\ category = "OTHER")

\* Lines 205-233: the AnalyzedTransaction built for a kept group.
RuleCandidate(g, cur, tie) ==
    LET dates == MapDates(g.txs)
        rec   == detect_recurrence(dates, tie)
    IN  [ original_descriptions |-> { g.txs[i].original_description : i \in 1..Len(g.txs) },
          suggested_name   |-> clean_merchant_name(g.txs[1].description),
          category         |-> categorize_by_keywords(g.txs[1].description),
          recurrence       |-> rec[1],
          day_of_month     |-> rec[2],
          day_of_week      |-> rec[3],
          average_amount   |-> 10 * RoundedCents(SumOf(MapAmounts(g.txs)), Len(g.txs)),
          currency         |-> cur,
          confidence       |-> RuleConfidence(Len(g.txs)),
          occurrence_count |-> Len(g.txs),
          date_range       |-> <<SetMin(SeqToSet(dates)), SetMax(SeqToSet(dates))>> ]

Categories == {"LOAN", "SUBSCRIPTION", "INVESTMENT", "INSURANCE", "UTILITY", "OTHER"}

\* The Field constraints of schemas.AnalyzedTransaction: a candidate that
\* breaks one makes the constructor raise pydantic's ValidationError.
SatisfiesSchema(c) ==
    /\ c.suggested_name # ""
    /\ c.category \in Categories
    /\ c.recurrence \in Recurrences
    /\ (c.day_of_month = None \/ c.day_of_month \in 1..31)
    /\ (c.day_of_week = None \/ c.day_of_week \in 0..6)
    /\ c.average_amount > 0
    /\ c.currency \in {"USD", "INR"}
    /\ c.confidence \in 0..100
    /\ c.occurrence_count >= 1

RECURSIVE InsertByConfidence(_, _)
InsertByConfidence(sorted, c) ==
    IF sorted = <<>> THEN <<c>>
    ELSE IF c.confidence > Head(sorted).confidence THEN <<c>> \o sorted
    ELSE <<Head(sorted)>> \o InsertByConfidence(Tail(sorted), c)

\* results.sort(key=lambda x: x.confidence, reverse=True): stable
RECURSIVE SortByConfidence(_)
SortByConfidence(cs) ==
    IF cs = <<>> THEN <<>>
    ELSE InsertByConfidence(SortByConfidence(SubSeq(cs, 1, Len(cs) - 1)), cs[Len(cs)])

RECURSIVE RuleCandidates(_, _, _)
RuleCandidates(groups, cur, tie) ==
    IF groups = <<>> THEN <<>>
    ELSE (IF GroupKept(Head(groups)) THEN <<RuleCandidate(Head(groups), cur, tie)>> ELSE <<>>)
            \o RuleCandidates(Tail(groups), cur, tie)

\* analyze_with_rules: [exc: what it raises, results: what it returns].
analyze_with_rules(txs, cur, tie) ==
    LET cands == RuleCandidates(group_transactions(txs), cur, tie)
    IN  IF \E i \in 1..Len(cands) : ~SatisfiesSchema(cands[i])
        THEN [exc |-> "ValidationError", results |-> <<>>]
        ELSE [exc |-> NoExc, results |-> SortByConfidence(cands)]

\* An item of the AI's analysis array, by the keys validate_analyzed_transaction
\* reads: has_amount is `'average_amount' in item`; amount None is one
\* Decimal() cannot parse; confidence is in hundredths.
AnalysisItem(name, hasAmt, amt, cat, rec, conf, dom, dow, descs) ==
    [ suggested_name |-> name, has_amount |-> hasAmt, average_amount |-> amt,
      category |-> cat, recurrence |-> rec, confidence |-> conf,
      day_of_month |-> dom, day_of_week |-> dow, original_descriptions |-> descs ]

AnalysisItems ==
    { AnalysisItem("Netflix", TRUE, 15990, "SUBSCRIPTION", "MONTHLY", 95, 15, None,
                   <<"NETFLIX.COM">>),
      AnalysisItem("Netflix", TRUE, 15990, "streaming", "fortnightly", 150, 40, 3,
                   <<"netflix">>),
      AnalysisItem("Gym", TRUE, 30000, "subscription", "weekly", 0 - 20, 12, 9,
                   <<"zzz">>),
      AnalysisItem("Water", FALSE, None, "UTILITY", "MONTHLY", 80, 1, None,
                   <<"CITY POWER">>),
      AnalysisItem("Power", TRUE, 0, "UTILITY", "MONTHLY", 80, 1, None, <<"CITY POWER">>) }

AnalysisOutcomes ==
    { ClaudeFailure("unavailable"), ClaudeFailure("error"),
      ClaudeAnswer("nobrackets", <<>>), ClaudeAnswer("invalid", <<>>) }
        \cup { ClaudeAnswer("array", items) : items \in SeqsUpTo(AnalysisItems, MaxAiItems) }

\* str(...).upper() on the category and recurrence strings drawn.
Upper(str) ==
    CASE str = "subscription" -> "SUBSCRIPTION"
      [] str = "streaming"    -> "STREAMING"
      [] str = "weekly"       -> "WEEKLY"
      [] str = "fortnightly"  -> "FORTNIGHTLY"
      [] OTHER                -> str

\* A validation that keeps both day fields of the item, whatever its recurrence.
ValidateKeepsDays(item) ==
    IF item.suggested_name = "" \/ ~item.has_amount THEN <<>>
    ELSE IF item.average_amount = None \/ item.average_amount <= 0 THEN <<>>
    ELSE << [ original_descriptions |-> item.original_descriptions,
              suggested_name |-> item.suggested_name,
              category       |-> IF Upper(item.category) \in Categories
                                 THEN Upper(item.category) ELSE "OTHER",
              recurrence     |-> IF Upper(item.recurrence) \in Recurrences
                                 THEN Upper(item.recurrence) ELSE "MONTHLY",
              average_amount |-> item.average_amount,
              confidence     |-> Max(0, Min(100, item.confidence)),
              day_of_month   |-> Max(1, Min(31, item.day_of_month)),
              day_of_week    |-> IF item.day_of_week = None THEN None
                                 ELSE Max(0, Min(6, item.day_of_week)) ] >>

\* validate_analyzed_transaction(item): <<>> for None, else <<the normalized dict>>.
validate_analyzed_transaction(item) ==
    IF item.suggested_name = "" THEN <<>>
    ELSE IF ~item.has_amount THEN <<>>
    ELSE IF item.average_amount = None \/ item.average_amount <= 0 THEN <<>>
    ELSE
      LET category   == IF Upper(item.category) \in Categories
                        THEN Upper(item.category) ELSE "OTHER"
          recurrence == IF Upper(item.recurrence) \in Recurrences
                        THEN Upper(item.recurrence) ELSE "MONTHLY"
          confidence == Max(0, Min(100, item.confidence))
          byMonth    == recurrence \in {"MONTHLY", "QUARTERLY", "ANNUAL"}
          byWeek     == recurrence \in {"WEEKLY", "BIWEEKLY"}
      IN  << [ original_descriptions |-> item.original_descriptions,
               suggested_name |-> item.suggested_name,
               category       |-> category,
               recurrence     |-> recurrence,
               average_amount |-> item.average_amount,
               confidence     |-> confidence,
               day_of_month   |-> IF byMonth /\ item.day_of_month # None
                                  THEN Max(1, Min(31, item.day_of_month)) ELSE None,
               day_of_week    |-> IF byWeek /\ item.day_of_week # None
                                  THEN Max(0, Min(6, item.day_of_week)) ELSE None ] >>

\* A loop that stops at the first item validation discards.
RECURSIVE StopsAtFirstDiscard(_)
StopsAtFirstDiscard(items) ==
    IF items = <<>> THEN <<>>
    ELSE IF validate_analyzed_transaction(Head(items)) = <<>> THEN <<>>
    ELSE validate_analyzed_transaction(Head(items)) \o StopsAtFirstDiscard(Tail(items))

\* Lines 436-442: the validated forms of the items validation keeps, in order.
RECURSIVE ValidatedItems(_)
ValidatedItems(items) ==
    IF items = <<>> THEN <<>>
    ELSE validate_analyzed_transaction(Head(items)) \o ValidatedItems(Tail(items))

\* analyze_transactions_with_llm when the API does `o`:
\* [exc, validated, usage (<<>> is None), claude: calls of call_claude made].
analyze_transactions_with_llm(txs, o) ==
    IF txs = <<>> THEN [exc |-> NoExc, validated |-> <<>>, usage |-> <<>>, claude |-> 0]
    ELSE
      LET called == call_claude(o)
      IN  IF called.exc # NoExc
          THEN [exc |-> called.exc, validated |-> <<>>, usage |-> <<>>, claude |-> 1]
          ELSE
            LET response    == PyStr(called.ret.val[1])   \* `response, usage = ...`
                usage       == called.ret.val[2]
                raw_results == extract_json_from_response(response)
            IN  IF raw_results.exc # NoExc
                THEN [exc |-> raw_results.exc, validated |-> <<>>, usage |-> <<>>, claude |-> 1]
                ELSE [exc |-> NoExc, validated |-> ValidatedItems(raw_results.list),
                      usage |-> <<usage>>, claude |-> 1]

\* Lines 278-292: the transactions an AI item is linked to.
RECURSIVE ExactMatches(_, _)
ExactMatches(descs, groups) ==
    IF descs = <<>> THEN <<>>
    ELSE LET key  == normalize_description(Head(descs))
             hits == { i \in 1..Len(groups) : groups[i].key = key }
         IN  (IF hits = {} THEN <<>> ELSE groups[CHOOSE i \in hits : TRUE].txs)
                \o ExactMatches(Tail(descs), groups)

RECURSIVE FuzzyMatches(_, _)
FuzzyMatches(descs, groups) ==
    IF groups = <<>> THEN <<>>
    ELSE (IF \E i \in 1..Len(descs) :
                \/ IsSubstring(normalize_description(descs[i]), Head(groups).key)
                \/ IsSubstring(Head(groups).key, normalize_description(descs[i]))
          THEN Head(groups).txs ELSE <<>>)
            \o FuzzyMatches(descs, Tail(groups))

\* A linking that adds the substring matches to the exact ones.
ExactAndFuzzy(item, txs) ==
    LET groups == group_transactions(txs)
        both   == ExactMatches(item.original_descriptions, groups)
                    \o FuzzyMatches(item.original_descriptions, groups)
    IN  IF both # <<>> THEN both ELSE SubSeq(txs, 1, 1)

MatchingTxs(item, txs) ==
    LET groups == group_transactions(txs)
        exact  == ExactMatches(item.original_descriptions, groups)
        fuzzy  == FuzzyMatches(item.original_descriptions, groups)
    IN  IF exact # <<>> THEN exact
        ELSE IF fuzzy # <<>> THEN fuzzy
        ELSE SubSeq(txs, 1, 1)

\* Lines 294-310: the AnalyzedTransaction built for a validated AI item.
AiCandidate(item, txs, cur) ==
    LET matching == MatchingTxs(item, txs)
        dates    == SeqToSet(MapDates(matching))
    IN  [ original_descriptions |-> SeqToSet(item.original_descriptions),
          suggested_name   |-> item.suggested_name,
          category         |-> item.category,
          recurrence       |-> item.recurrence,
          day_of_month     |-> item.day_of_month,
          day_of_week      |-> item.day_of_week,
          average_amount   |-> item.average_amount,
          currency         |-> cur,
          confidence       |-> item.confidence,
          occurrence_count |-> Len(matching),
          date_range       |-> <<SetMin(dates), SetMax(dates)>> ]

RECURSIVE AiCandidates(_, _, _)
AiCandidates(items, txs, cur) ==
    IF items = <<>> THEN <<>>
    ELSE <<AiCandidate(Head(items), txs, cur)>> \o AiCandidates(Tail(items), txs, cur)

\* What analyze_transactions raises or returns.
Returned(analyzed, fallback, usage) ==
    [exc |-> NoExc, analyzed |-> analyzed, used_fallback |-> fallback, usage |-> usage]

Raised(exc) == [exc |-> exc, analyzed |-> <<>>, used_fallback |-> FALSE, usage |-> <<>>]

\* A fallback that forgets the usage of the AI call that preceded it.
FallbackDropsUsage(txs, cur, tie, usage) ==
    LET rules == analyze_with_rules(txs, cur, tie)
    IN  IF rules.exc # NoExc THEN Raised(rules.exc)
        ELSE Returned(rules.results, TRUE, <<>>)

\* `return analyze_with_rules(transactions, currency), True, usage` (lines 272, 316).
Fallback(txs, cur, tie, usage) ==
    LET rules == analyze_with_rules(txs, cur, tie)
    IN  IF rules.exc # NoExc THEN Raised(rules.exc)
        ELSE Returned(rules.results, TRUE, usage)

\* Lines 270-316, once analyze_transactions_with_llm has given `ret`.
AnalyzeAfterLlm(txs, cur, ret, tie) ==
    IF ret.exc # NoExc
    THEN IF IsClaudeError(ret.exc) THEN Fallback(txs, cur, tie, <<>>)
         ELSE Raised(ret.exc)
    ELSE IF ret.validated = <<>> THEN Fallback(txs, cur, tie, ret.usage)
    ELSE LET analyzed == AiCandidates(ret.validated, txs, cur)
         IN  IF \E i \in 1..Len(analyzed) : ~SatisfiesSchema(analyzed[i])
             THEN Raised("ValidationError")
             ELSE Returned(analyzed, FALSE, ret.usage)

\* analyze_transactions from call to return, when the API does `o`.
analyze_transactions(txs, cur, o, tie) ==
    IF txs = <<>> THEN Returned(<<>>, FALSE, <<>>)
    ELSE AnalyzeAfterLlm(txs, cur, analyze_transactions_with_llm(txs, o), tie)

(***************************************************************************)
(* services/csv_parser.py                                                  *)
(***************************************************************************)
Roles == <<"date", "description", "amount", "debit", "credit">>

\* The header names drawn, and match_column(header, patterns) on them for
\* the pattern list of each role (lower-cased, stripped, re.match).
HeaderNames == {"Date", "Posted Date", "Description", "Amount", "Debit", "Credit", "Balance"}

match_column(header, role) ==
    CASE role = "date"        -> header \in {"Date", "Posted Date"}
      [] role = "description" -> header \in {"Description", "Memo"}
      [] role = "amount"      -> header = "Amount"
      [] role = "debit"       -> header = "Debit"
      [] role = "credit"      -> header = "Credit"
      [] OTHER                -> FALSE

NoColumns == [role \in {"date", "description", "amount", "debit", "credit"} |-> None]

\* The role the elif chain of lines 83-92 gives the header at hand, "" for none.
RoleTaken(columns, header) ==
    LET free == { k \in 1..Len(Roles) :
                    columns[Roles[k]] = None /\ match_column(header, Roles[k]) }
    IN  IF free = {} THEN "" ELSE Roles[CHOOSE k \in free : \A j \in free : k <= j]

\* detect_columns on headers[idx..]: indices count from 0 as enumerate does.
RECURSIVE DetectFrom(_, _, _)
DetectFrom(headers, idx, columns) ==
    IF idx >= Len(headers) THEN columns
    ELSE LET role == RoleTaken(columns, headers[idx + 1])
         IN  DetectFrom(headers, idx + 1,
                        IF role = "" THEN columns ELSE [columns EXCEPT ![role] = idx])

detect_columns(headers) == DetectFrom(headers, 0, NoColumns)

\* csv_parser.parse_date on the cells drawn: the first format that fits.
csv_parse_date(cell) ==
    CASE cell = "2024-01-15"  -> Ord(2024, 1, 15)
      [] cell = "2024-01-10"  -> Ord(2024, 1, 10)
      [] cell = "2024-01-12"  -> Ord(2024, 1, 12)
      [] cell = "2024-01-05"  -> Ord(2024, 1, 5)
      [] cell = " 01/20/2024" -> Ord(2024, 1, 20)
      [] OTHER                -> None

\* str.strip() on the description cells drawn.
Strip(cell) ==
    CASE cell = "  "    -> ""
      [] cell = " GYM " -> "GYM"
      [] OTHER          -> cell

NoAmount == [some |-> FALSE, val |-> 0]

SomeAmount(v) == [some |-> TRUE, val |-> v]

\* csv_parser.parse_amount on the cells drawn, in thousandths: None for an
\* empty cell, for one with no digit, sign or separator left, and for what
\* Decimal() rejects.
csv_parse_amount(cell) ==
    CASE cell = "15.99"     -> SomeAmount(15990)
      [] cell = "-1,200.00" -> SomeAmount(0 - 1200000)
      [] cell = "$5.00"     -> SomeAmount(5000)
      [] cell = "7,5"       -> SomeAmount(7500)
      [] cell = "2500.00"   -> SomeAmount(2500000)
      [] cell = "0"         -> SomeAmount(0)
      [] cell = "0.00"      -> SomeAmount(0)
      [] OTHER              -> NoAmount

\* max(filter(None, columns.values())): filter drops None and index 0.
MaxColumnIndex(columns) ==
    SetMax({ columns[r] : r \in { q \in DOMAIN columns : columns[q] # None /\ columns[q] # 0 } })

\* Python's row[i]
Cell(row, i) == row[i + 1]

\* What one data row does in the loop of lines 201-252:
\* "skipped" (counted), "credit" (the bare continue of line 233) or "kept".
RowOutcome(row, columns) ==
    LET has_amount       == columns["amount"] # None
        has_debit_credit == columns["debit"] # None \/ columns["credit"] # None
    IN  IF Len(row) <= MaxColumnIndex(columns) THEN [kind |-> "skipped", tx |-> <<>>]
        ELSE
          LET date_val    == csv_parse_date(Cell(row, columns["date"]))
              description == Strip(Cell(row, columns["description"]))
              debit       == IF columns["debit"] # None
                             THEN csv_parse_amount(Cell(row, columns["debit"])) ELSE NoAmount
              credit      == IF columns["credit"] # None
                             THEN csv_parse_amount(Cell(row, columns["credit"])) ELSE NoAmount
              fromDebit   == IF debit.some /\ debit.val # 0
                             THEN SomeAmount(Abs(debit.val)) ELSE NoAmount
              amount      == IF has_amount
                             THEN csv_parse_amount(Cell(row, columns["amount"]))
                             ELSE fromDebit
          IN  IF date_val = None THEN [kind |-> "skipped", tx |-> <<>>]
              ELSE IF description = "" THEN [kind |-> "skipped", tx |-> <<>>]
              ELSE IF ~has_amount /\ has_debit_credit /\ ~amount.some
                      /\ credit.some /\ credit.val # 0
                   THEN [kind |-> "credit", tx |-> <<>>]
              ELSE IF ~amount.some \/ amount.val <= 0 THEN [kind |-> "skipped", tx |-> <<>>]
              ELSE [kind |-> "kept",
                    tx |-> <<ParsedTransaction(date_val, description, amount.val)>>]

\* A loop that gives up at the first row it cannot use.
RECURSIVE RowsUntilDefect(_, _)
RowsUntilDefect(rows, columns) ==
    IF rows = <<>> THEN [transactions |-> <<>>, skipped_count |-> 0]
    ELSE LET o    == RowOutcome(Head(rows), columns)
             rest == RowsUntilDefect(Tail(rows), columns)
         IN  IF o.kind = "skipped" THEN [transactions |-> <<>>, skipped_count |-> 1]
             ELSE [transactions |-> o.tx \o rest.transactions,
                   skipped_count |-> rest.skipped_count]

\* Lines 200-252 over the data rows: the transactions appended and skipped_count.
RECURSIVE ParseRows(_, _)
ParseRows(rows, columns) ==
    IF rows = <<>> THEN [transactions |-> <<>>, skipped_count |-> 0]
    ELSE LET o    == RowOutcome(Head(rows), columns)
             rest == ParseRows(Tail(rows), columns)
         IN  [transactions  |-> o.tx \o rest.transactions,
              skipped_count |-> rest.skipped_count + (IF o.kind = "skipped" THEN 1 ELSE 0)]

\* The CSVParseError messages of parse_csv.
NoDataRowsError == "CSV file contains no data rows"

NoDateColumnError == "Could not detect date column"

NoDescriptionColumnError == "Could not detect description column"

NoAmountColumnError == "Could not detect amount column"

NoValidTransactionsError == "No valid transactions found in CSV"

\* A column check that asks for nothing beyond date and description.
AnyAmountColumns(columns) == FALSE

\* Lines 193-196: `not has_amount and not has_debit_credit`
LacksAmountColumns(columns) ==
    /\ columns["amount"] = None
    /\ ~(columns["debit"] # None \/ columns["credit"] # None)

\* parse_csv from `rows` on (line 179): [error, columns, transactions, warnings].
parse_csv(rows) ==
    IF Len(rows) < 2
    THEN [error |-> NoDataRowsError, columns |-> NoColumns, transactions |-> <<>>, warnings |-> <<>>]
    ELSE
      LET columns == detect_columns(rows[1])
          parsed  == ParseRows(Tail(rows), columns)
          failed(msg) == [error |-> msg, columns |-> columns,
                          transactions |-> <<>>, warnings |-> <<>>]
      IN  IF columns["date"] = None THEN failed(NoDateColumnError)
          ELSE IF columns["description"] = None THEN failed(NoDescriptionColumnError)
          ELSE IF LacksAmountColumns(columns) THEN failed(NoAmountColumnError)
          ELSE IF parsed.transactions = <<>> THEN failed(NoValidTransactionsError)
          ELSE [error |-> "", columns |-> columns,
                transactions |-> SortByDate(parsed.transactions),
                warnings |-> IF parsed.skipped_count > 0
                             THEN <<[msg |-> "Skipped rows due to missing or invalid data",
                                     count |-> parsed.skipped_count]>>
                             ELSE <<>>]

(***************************************************************************)
(* parse_pdf as a state machine                                            *)
(***************************************************************************)
NoCalls == [regex |-> 0, table |-> 0, llm |-> 0, claude |-> 0]

IdlePdf ==
    /\ pdf_pc = "idle"
    /\ pdf_doc = NoDoc
    /\ regex_out = NoScan
    /\ tables_out = NoTables
    /\ claude_out = NoClaudeCall
    /\ all_transactions = <<>>
    /\ warnings = <<>>
    /\ pdf_error = NoExc
    /\ calls = NoCalls


NoLlmReturn == [exc |-> NoExc, validated |-> <<>>, usage |-> <<>>, claude |-> 0]

NoResult == Returned(<<>>, FALSE, <<>>)

\* The draws of the iteration order of a set with several most frequent values.
TieRanks == 0..2

IdleAnalyze ==
    /\ an_pc = "idle"
    /\ transactions = <<>>
    /\ currency = "USD"
    /\ ai_out = NoClaudeCall
    /\ llm_ret = NoLlmReturn
    /\ an_result = NoResult
    /\ ai_calls = 0

IdleDetect ==
    /\ det_dates = <<>>
    /\ det_result = <<>>

IdleValidate ==
    /\ val_pc = "idle"
    /\ val_items = <<>>
    /\ val_out = <<>>

IdleCsv ==
    /\ csv_pc = "idle"
    /\ csv_rows = <<>>
    /\ csv_columns = NoColumns
    /\ csv_transactions = <<>>
    /\ csv_warnings = <<>>
    /\ csv_error = ""

IdleRules ==
    /\ rule_pc = "idle"
    /\ rule_txs = <<>>
    /\ rule_currency = "USD"
    /\ rule_result = [exc |-> NoExc, results |-> <<>>]

NoResponse ==
    [ status |-> 0, detail |-> "", success |-> FALSE, total_transactions |-> 0,
      analyzed_bills |-> <<>>, parsing_warnings |-> <<>>, used_fallback |-> FALSE ]

NoParse == [error |-> "", transactions |-> <<>>, warnings |-> <<>>]

IdleUpload ==
    /\ up_pc = "idle"
    /\ up_parse = NoParse
    /\ up_currency = "USD"
    /\ up_ai = NoClaudeCall
    /\ up_analysis = NoResult
    /\ up_response = NoResponse

IdleScan ==
    /\ scan_pc = "idle"
    /\ scan_lines = <<>>
    /\ scan_i = 0
    /\ in_withdrawals = FALSE
    /\ in_deposits = FALSE
    /\ scan_transactions = <<>>
    /\ scan_src = <<>>

IdleRelink ==
    /\ rl_pc = "idle"
    /\ rl_txs = <<>>
    /\ rl_descs = <<>>
    /\ rl_matching = <<>>
    /\ rl_result = NoResult

\* A Decimal by its sign and its digits before and after the point; `some`
\* is FALSE for None.
NoDecimal == [some |-> FALSE, neg |-> FALSE, int |-> <<>>, frac |-> <<>>]

NoParts == [sign |-> "", currency |-> "", groups |-> <<>>, seps |-> <<>>, suffix |-> ""]

IdleAmount ==
    /\ amt_pc = "idle"
    /\ amt_parts = NoParts
    /\ amt_text = <<>>
    /\ amt_csv = NoDecimal
    /\ amt_pdf = NoDecimal

IdleOccurs ==
    /\ payment = [recurrence |-> "ONETIME", day_of_month |-> None, day_of_week |-> None,
                  start_date |-> FirstOrd, end_date |-> None]
    /\ check_date = None
    /\ occurs = FALSE

(***************************************************************************)
(* The recurrence evaluator as a state machine                             *)
(***************************************************************************)
InitOccurs ==
    /\ payment \in PaymentRows
    /\ check_date = None
    /\ occurs = FALSE
    /\ IdlePdf
    /\ IdleAnalyze
    /\ IdleDetect
    /\ IdleValidate
    /\ IdleCsv
    /\ IdleRules
    /\ IdleUpload
    /\ IdleScan
    /\ IdleRelink
    /\ IdleAmount

\* One call payment_occurs_on_date(payment, x).
PaymentOccursOnDate ==
    /\ check_date = None
    /\ \E x \in Dates :
        /\ check_date' = x
        /\ occurs' = payment_occurs_on_date(payment, x)
    /\ UNCHANGED payment
    /\ UNCHANGED pdfVars
    /\ UNCHANGED analyzeVars
    /\ UNCHANGED detectVars
    /\ UNCHANGED validateVars
    /\ UNCHANGED csvVars
    /\ UNCHANGED rulesVars
    /\ UNCHANGED uploadVars
    /\ UNCHANGED scanVars
    /\ UNCHANGED relinkVars
    /\ UNCHANGED amountVars

NextOccurs == PaymentOccursOnDate

SpecOccurs == InitOccurs /\ [][NextOccurs]_vars

InitPdf ==
    /\ pdf_pc = "validate"
    /\ pdf_doc \in PdfDocs
    /\ regex_out = NoScan
    /\ tables_out = NoTables
    /\ claude_out = NoClaudeCall
    /\ all_transactions = <<>>
    /\ warnings = <<>>
    /\ pdf_error = NoExc
    /\ calls = NoCalls
    /\ IdleOccurs
    /\ IdleAnalyze
    /\ IdleDetect
    /\ IdleValidate
    /\ IdleCsv
    /\ IdleRules
    /\ IdleUpload
    /\ IdleScan
    /\ IdleRelink
    /\ IdleAmount

\* parse_pdf, lines 412-446: the document-level checks.
ValidateDocument ==
    /\ pdf_pc = "validate"
    /\ pdf_error' = DocumentError(pdf_doc)
    /\ pdf_pc' = IF DocumentError(pdf_doc) # NoExc THEN "raised" ELSE "layer1"
    /\ UNCHANGED <<pdf_doc, regex_out, tables_out, claude_out, all_transactions,
                   warnings, calls>>
    /\ UNCHANGED occursVars
    /\ UNCHANGED analyzeVars
    /\ UNCHANGED detectVars
    /\ UNCHANGED validateVars
    /\ UNCHANGED csvVars
    /\ UNCHANGED rulesVars
    /\ UNCHANGED uploadVars
    /\ UNCHANGED scanVars
    /\ UNCHANGED relinkVars
    /\ UNCHANGED amountVars

\* parse_pdf, lines 448-460: layer 1, the text line-pattern scan.
Layer1Text ==
    /\ pdf_pc = "layer1"
    /\ \E out \in TextScanOutcomes :
        LET caught == CatchesException(out.exc)
            found  == IF out.exc = NoExc THEN out.txs ELSE <<>>
        IN  /\ regex_out' = out
            /\ calls' = [calls EXCEPT !.regex = @ + 1]
            /\ IF out.exc # NoExc /\ ~caught
               THEN /\ pdf_pc' = "raised"
                    /\ pdf_error' = out.exc
                    /\ UNCHANGED <<all_transactions, warnings>>
               ELSE /\ warnings' = warnings \o
                        (IF out.exc # NoExc THEN <<"Text regex extraction failed">>
                         ELSE IF found # <<>> THEN <<"Extracted transactions using text parsing">>
                         ELSE <<>>)
                    /\ all_transactions' =
                        IF LayerReturns(all_transactions \o found)
                        THEN SortByDate(all_transactions \o found)
                        ELSE all_transactions \o found
                    /\ pdf_pc' = IF LayerReturns(all_transactions \o found)
                                 THEN "returned" ELSE "layer2"
                    /\ UNCHANGED pdf_error
    /\ UNCHANGED <<pdf_doc, tables_out, claude_out>>
    /\ UNCHANGED occursVars
    /\ UNCHANGED analyzeVars
    /\ UNCHANGED detectVars
    /\ UNCHANGED validateVars
    /\ UNCHANGED csvVars
    /\ UNCHANGED rulesVars
    /\ UNCHANGED uploadVars
    /\ UNCHANGED scanVars
    /\ UNCHANGED relinkVars
    /\ UNCHANGED amountVars

\* parse_pdf, lines 462-495: layer 2, the table rows.
Layer2Table ==
    /\ pdf_pc = "layer2"
    /\ \E out \in TableOutcomes :
        LET caught == CatchesException(out.exc)
            found  == IF out.exc = NoExc THEN TablesTransactions(out.tables) ELSE <<>>
        IN  /\ tables_out' = out
            /\ calls' = [calls EXCEPT !.table = @ + 1]
            /\ IF out.exc # NoExc /\ ~caught
               THEN /\ pdf_pc' = "raised"
                    /\ pdf_error' = out.exc
                    /\ UNCHANGED <<all_transactions, warnings>>
               ELSE /\ warnings' = warnings \o
                        (IF out.exc # NoExc THEN <<"Table extraction failed">>
                         ELSE IF out.tables # <<>> THEN <<"Attempting table extraction...">>
                         ELSE <<>>)
                    /\ all_transactions' =
                        IF LayerReturns(all_transactions \o found)
                        THEN SortByDate(all_transactions \o found)
                        ELSE all_transactions \o found
                    /\ pdf_pc' = IF LayerReturns(all_transactions \o found)
                                 THEN "returned" ELSE "layer3"
                    /\ UNCHANGED pdf_error
    /\ UNCHANGED <<pdf_doc, regex_out, claude_out>>
    /\ UNCHANGED occursVars
    /\ UNCHANGED analyzeVars
    /\ UNCHANGED detectVars
    /\ UNCHANGED validateVars
    /\ UNCHANGED csvVars
    /\ UNCHANGED rulesVars
    /\ UNCHANGED uploadVars
    /\ UNCHANGED scanVars
    /\ UNCHANGED relinkVars
    /\ UNCHANGED amountVars

\* parse_pdf, lines 497-516: layer 3, the AI extraction, and the final result.
Layer3AI ==
    /\ pdf_pc = "layer3"
    /\ \E o \in ClaudeOutcomes :
        LET r      == extract_transactions_with_llm(pdf_doc.text_len, o)
            caught == CatchesException(r.exc)
            found  == IF r.exc = NoExc THEN r.txs ELSE <<>>
            after  == all_transactions \o found
        IN  /\ claude_out' = (IF r.claude > 0 THEN o ELSE NoClaudeCall)
            /\ calls' = [calls EXCEPT !.llm = @ + 1, !.claude = @ + r.claude]
            /\ IF r.exc # NoExc /\ ~caught
               THEN /\ pdf_pc' = "raised"
                    /\ pdf_error' = r.exc
                    /\ UNCHANGED all_transactions
                    /\ warnings' = warnings \o <<"Using AI to extract transactions from PDF text">>
               ELSE /\ warnings' = warnings
                        \o <<"Using AI to extract transactions from PDF text">>
                        \o (IF r.exc # NoExc THEN <<"LLM extraction error">> ELSE r.warnings)
                    /\ IF after = <<>>
                       THEN /\ pdf_pc' = "raised"
                            /\ pdf_error' = "No transactions found in PDF"
                            /\ UNCHANGED all_transactions
                       ELSE /\ pdf_pc' = "returned"
                            /\ all_transactions' = SortByDate(after)
                            /\ UNCHANGED pdf_error
    /\ UNCHANGED <<pdf_doc, regex_out, tables_out>>
    /\ UNCHANGED occursVars
    /\ UNCHANGED analyzeVars
    /\ UNCHANGED detectVars
    /\ UNCHANGED validateVars
    /\ UNCHANGED csvVars
    /\ UNCHANGED rulesVars
    /\ UNCHANGED uploadVars
    /\ UNCHANGED scanVars
    /\ UNCHANGED relinkVars
    /\ UNCHANGED amountVars

NextPdf == ValidateDocument \/ Layer1Text \/ Layer2Table \/ Layer3AI

SpecPdf == InitPdf /\ [][NextPdf]_vars

(***************************************************************************)
(* analyze_transactions as a state machine                                 *)
(***************************************************************************)
InitAnalyze ==
    /\ an_pc = "start"
    /\ transactions \in SeqsUpTo(TxCatalogue, MaxTxs)
    /\ currency \in Currencies
    /\ ai_out = NoClaudeCall
    /\ llm_ret = NoLlmReturn
    /\ an_result = NoResult
    /\ ai_calls = 0
    /\ IdleOccurs
    /\ IdlePdf
    /\ IdleDetect
    /\ IdleValidate
    /\ IdleCsv
    /\ IdleRules
    /\ IdleUpload
    /\ IdleScan
    /\ IdleRelink
    /\ IdleAmount

\* analyze_transactions, lines 251-252: nothing to analyze.
AnalyzeNothing ==
    /\ an_pc = "start"
    /\ transactions = <<>>
    /\ an_pc' = "done"
    /\ an_result' = Returned(<<>>, FALSE, <<>>)
    /\ UNCHANGED <<transactions, currency, ai_out, llm_ret, ai_calls>>
    /\ UNCHANGED occursVars
    /\ UNCHANGED pdfVars
    /\ UNCHANGED detectVars
    /\ UNCHANGED validateVars
    /\ UNCHANGED csvVars
    /\ UNCHANGED rulesVars
    /\ UNCHANGED uploadVars
    /\ UNCHANGED scanVars
    /\ UNCHANGED relinkVars
    /\ UNCHANGED amountVars

\* analyze_transactions, lines 255-268: the awaited AI call.
AnalyzeCallLlm ==
    /\ an_pc = "start"
    /\ transactions # <<>>
    /\ \E o \in AnalysisOutcomes :
        LET ret == analyze_transactions_with_llm(transactions, o)
        IN  /\ ai_out' = o
            /\ llm_ret' = ret
            /\ ai_calls' = ai_calls + ret.claude
    /\ an_pc' = "llm_returned"
    /\ UNCHANGED <<transactions, currency, an_result>>
    /\ UNCHANGED occursVars
    /\ UNCHANGED pdfVars
    /\ UNCHANGED detectVars
    /\ UNCHANGED validateVars
    /\ UNCHANGED csvVars
    /\ UNCHANGED rulesVars
    /\ UNCHANGED uploadVars
    /\ UNCHANGED scanVars
    /\ UNCHANGED relinkVars
    /\ UNCHANGED amountVars

\* analyze_transactions, lines 270-316: use the AI's candidates or fall back.
AnalyzeFinish ==
    /\ an_pc = "llm_returned"
    /\ \E tie \in TieRanks :
        an_result' = AnalyzeAfterLlm(transactions, currency, llm_ret, tie)
    /\ an_pc' = "done"
    /\ UNCHANGED <<transactions, currency, ai_out, llm_ret, ai_calls>>
    /\ UNCHANGED occursVars
    /\ UNCHANGED pdfVars
    /\ UNCHANGED detectVars
    /\ UNCHANGED validateVars
    /\ UNCHANGED csvVars
    /\ UNCHANGED rulesVars
    /\ UNCHANGED uploadVars
    /\ UNCHANGED scanVars
    /\ UNCHANGED relinkVars
    /\ UNCHANGED amountVars

NextAnalyze == AnalyzeNothing \/ AnalyzeCallLlm \/ AnalyzeFinish

SpecAnalyze == InitAnalyze /\ [][NextAnalyze]_vars

(***************************************************************************)
(* detect_recurrence on its own                                            *)
(***************************************************************************)
\* Most dates handed to detect_recurrence.
MaxDates == 3

\* The days after the first date on which a transaction can recur: both
\* sides of every edge of every band, and the same day again.
GapDays == {0, 4, 5, 9, 10, 11, 12, 16, 17, 24, 25, 35, 36, 84, 85, 100, 101,
            349, 350, 380, 381}

FirstSeen == Ord(2023, 1, 31)

\* The 15th of three consecutive months.
Fifteenths == {Ord(2024, 1, 15), Ord(2024, 2, 15), Ord(2024, 3, 15)}

SeenDates == { FirstSeen + g : g \in GapDays } \cup Fifteenths

InitDetect ==
    /\ det_dates \in SeqsUpTo(SeenDates, MaxDates)
    /\ det_result = <<>>
    /\ IdleOccurs
    /\ IdlePdf
    /\ IdleAnalyze
    /\ IdleValidate
    /\ IdleCsv
    /\ IdleRules
    /\ IdleUpload
    /\ IdleScan
    /\ IdleRelink
    /\ IdleAmount

\* One call of detect_recurrence(dates).
DetectRecurrence ==
    /\ det_result = <<>>
    /\ \E tie \in TieRanks : det_result' = detect_recurrence(det_dates, tie)
    /\ UNCHANGED det_dates
    /\ UNCHANGED occursVars
    /\ UNCHANGED pdfVars
    /\ UNCHANGED analyzeVars
    /\ UNCHANGED validateVars
    /\ UNCHANGED csvVars
    /\ UNCHANGED rulesVars
    /\ UNCHANGED uploadVars
    /\ UNCHANGED scanVars
    /\ UNCHANGED relinkVars
    /\ UNCHANGED amountVars

NextDetect == DetectRecurrence

SpecDetect == InitDetect /\ [][NextDetect]_vars

(***************************************************************************)
(* The validation of the AI's items on its own                             *)
(***************************************************************************)
\* Most items of the AI's array handed to the validation loop.
MaxRawItems == 2

\* Items as the AI can write them: well formed; lower-case and unknown
\* enum values with out-of-range confidence and days; a fraction of a cent;
\* and amounts that are missing, unparseable, zero or negative.
RawItems ==
    { AnalysisItem("Netflix", TRUE, 15990, "SUBSCRIPTION", "MONTHLY", 95, 15, None, <<"NETFLIX.COM">>),
      AnalysisItem("Gym", TRUE, 30000, "subscription", "weekly", 0 - 20, 12, 9, <<"zzz">>),
      AnalysisItem("Stream", TRUE, 9990, "streaming", "fortnightly", 150, 40, 3, <<"netflix">>),
      AnalysisItem("Rent", TRUE, 1, "LOAN", "BIWEEKLY", 50, 0, 0 - 3, <<>>),
      AnalysisItem("Water", FALSE, None, "UTILITY", "MONTHLY", 80, 1, None, <<"CITY POWER">>),
      AnalysisItem("Gas", TRUE, None, "UTILITY", "MONTHLY", 80, 1, None, <<"CITY POWER">>),
      AnalysisItem("Power", TRUE, 0, "UTILITY", "MONTHLY", 80, 1, None, <<"CITY POWER">>),
      AnalysisItem("Refund", TRUE, 0 - 5000, "OTHER", "ONETIME", 80, None, None, <<>>),
      AnalysisItem("", TRUE, 5000, "UTILITY", "MONTHLY", 80, 1, None, <<"CITY POWER">>) }

InitValidate ==
    /\ val_pc = "start"
    /\ val_items \in SeqsUpTo(RawItems, MaxRawItems)
    /\ val_out = <<>>
    /\ IdleOccurs
    /\ IdlePdf
    /\ IdleAnalyze
    /\ IdleDetect
    /\ IdleCsv
    /\ IdleRules
    /\ IdleUpload
    /\ IdleScan
    /\ IdleRelink
    /\ IdleAmount

\* analyze_transactions_with_llm, lines 436-442: validate every item.
ValidateItems ==
    /\ val_pc = "start"
    /\ val_out' = ValidatedItems(val_items)
    /\ val_pc' = "done"
    /\ UNCHANGED val_items
    /\ UNCHANGED occursVars
    /\ UNCHANGED pdfVars
    /\ UNCHANGED analyzeVars
    /\ UNCHANGED detectVars
    /\ UNCHANGED csvVars
    /\ UNCHANGED rulesVars
    /\ UNCHANGED uploadVars
    /\ UNCHANGED scanVars
    /\ UNCHANGED relinkVars
    /\ UNCHANGED amountVars

NextValidate == ValidateItems

SpecValidate == InitValidate /\ [][NextValidate]_vars

(***************************************************************************)
(* parse_csv as a state machine                                            *)
(***************************************************************************)
\* Most data rows of a file, and most columns of a drawn header.
MaxDataRows == 2

MaxCols == 4

\* Header rows of statements as banks export them.
StatementHeaders ==
    { <<"Date", "Description", "Debit", "Credit">>,
      <<"Date", "Description", "Amount">>,
      <<"Posted Date", "Memo", "Amount", "Balance">>,
      <<"Date", "Description", "Amount", "Credit">> }

\* Data rows written for the layout Date, Description, Debit, Credit: a
\* debit, a credit, a debit whose row ends before the credit cell, a negative
\* debit, zeros, a bad date, a blank description, an unparseable debit with
\* and without a credit beside it, and an empty line.
StatementRows ==
    { <<"2024-01-15", "NETFLIX.COM", "15.99", "">>,
      <<"2024-01-15", "NETFLIX.COM", "", "15.99">>,
      <<"2024-01-15", "NETFLIX.COM", "15.99">>,
      <<"2024-01-10", "RENT", "-1,200.00", "0">>,
      <<" 01/20/2024", " GYM ", "0", "0.00">>,
      <<"15.01.2024", "RENT", "$5.00", "">>,
      <<"2024-01-12", "  ", "$5.00", "">>,
      <<"2024-01-12", "RENT", "abc", "">>,
      <<"2024-01-12", "RENT", "abc", "7,5">>,
      <<"2024-01-05", "SALARY", "0", "2500.00">>,
      <<>> }

InitCsv ==
    /\ csv_pc = "start"
    /\ \E header \in StatementHeaders, data \in SeqsUpTo(StatementRows, MaxDataRows) :
          csv_rows = <<header>> \o data
    /\ csv_columns = NoColumns
    /\ csv_transactions = <<>>
    /\ csv_warnings = <<>>
    /\ csv_error = ""
    /\ IdleOccurs
    /\ IdlePdf
    /\ IdleAnalyze
    /\ IdleDetect
    /\ IdleValidate
    /\ IdleRules
    /\ IdleUpload
    /\ IdleScan
    /\ IdleRelink
    /\ IdleAmount

\* Files whose header is any row of up to MaxCols of the names drawn, over
\* no data row or one that fits any layout of four columns.
InitCsvColumns ==
    /\ csv_pc = "start"
    /\ \E header \in SeqsUpTo(HeaderNames, MaxCols),
          data \in SeqsUpTo({<<"2024-01-15", "2024-01-15", "15.99", "15.99">>}, 1) :
          csv_rows = <<header>> \o data
    /\ csv_columns = NoColumns
    /\ csv_transactions = <<>>
    /\ csv_warnings = <<>>
    /\ csv_error = ""
    /\ IdleOccurs
    /\ IdlePdf
    /\ IdleAnalyze
    /\ IdleDetect
    /\ IdleValidate
    /\ IdleRules
    /\ IdleUpload
    /\ IdleScan
    /\ IdleRelink
    /\ IdleAmount

\* One call of parse_csv, from the rows csv.reader read.
ParseCsv ==
    /\ csv_pc = "start"
    /\ LET r == parse_csv(csv_rows)
       IN  /\ csv_columns' = r.columns
           /\ csv_transactions' = r.transactions
           /\ csv_warnings' = r.warnings
           /\ csv_error' = r.error
    /\ csv_pc' = "done"
    /\ UNCHANGED csv_rows
    /\ UNCHANGED occursVars
    /\ UNCHANGED pdfVars
    /\ UNCHANGED analyzeVars
    /\ UNCHANGED detectVars
    /\ UNCHANGED validateVars
    /\ UNCHANGED rulesVars
    /\ UNCHANGED uploadVars
    /\ UNCHANGED scanVars
    /\ UNCHANGED relinkVars
    /\ UNCHANGED amountVars

NextCsv == ParseCsv

SpecCsv == InitCsv /\ [][NextCsv]_vars

SpecCsvColumns == InitCsvColumns /\ [][NextCsv]_vars

(***************************************************************************)
(* analyze_with_rules on its own                                           *)
(***************************************************************************)
\* Most transactions handed to analyze_with_rules.
MaxRuleTxs == 3

\* The raw transactions drawn: descriptions that match an exclusion pattern,
\* a keyword of one category, keywords of two categories, an exclusion and
\* a keyword at once, nothing at all, and one that normalizes to the empty
\* key; amounts from below one cent to thousands.
RuleTxCatalogue ==
    { Tx(Ord(2024, 1, 15), "NETFLIX.COM", 15990),
      Tx(Ord(2024, 3, 14), "NETFLIX.COM #12345", 17990),
      Tx(Ord(2024, 1, 20), "ATM WITHDRAWAL", 100000),
      Tx(Ord(2024, 1, 22), "JOES PLUMBING", 250000),
      Tx(Ord(2024, 1, 29), "JOES PLUMBING", 4),
      Tx(Ord(2024, 2, 1),  "CITY POWER", 4),
      Tx(Ord(2024, 2, 3),  "SHELL GAS STATION", 40000),
      Tx(Ord(2024, 2, 5),  "AMAZON PRIME", 14990),
      Tx(Ord(2024, 2, 6),  "AMAZON MARKETPLACE", 23500),
      Tx(Ord(2024, 2, 10), "HOME LOAN INSURANCE", 900000),
      Tx(Ord(2024, 2, 11), "VANGUARD INSURANCE", 50000),
      Tx(Ord(2024, 2, 12), "VERIZON INSURANCE", 12000),
      Tx(Ord(2024, 2, 14), "UBER ONE MEMBERSHIP", 9990),
      Tx(Ord(2024, 2, 20), "12345", 1000) }

InitRules ==
    /\ rule_pc = "start"
    /\ rule_txs \in SeqsUpTo(RuleTxCatalogue, MaxRuleTxs)
    /\ rule_currency \in Currencies
    /\ rule_result = [exc |-> NoExc, results |-> <<>>]
    /\ IdleOccurs
    /\ IdlePdf
    /\ IdleAnalyze
    /\ IdleDetect
    /\ IdleValidate
    /\ IdleCsv
    /\ IdleUpload
    /\ IdleScan
    /\ IdleRelink
    /\ IdleAmount

\* analyze_with_rules(transactions, currency)
AnalyzeWithRules ==
    /\ rule_pc = "start"
    /\ \E tie \in TieRanks :
        rule_result' = analyze_with_rules(rule_txs, rule_currency, tie)
    /\ rule_pc' = "done"
    /\ UNCHANGED <<rule_txs, rule_currency>>
    /\ UNCHANGED occursVars
    /\ UNCHANGED pdfVars
    /\ UNCHANGED analyzeVars
    /\ UNCHANGED detectVars
    /\ UNCHANGED validateVars
    /\ UNCHANGED csvVars
    /\ UNCHANGED uploadVars
    /\ UNCHANGED scanVars
    /\ UNCHANGED relinkVars
    /\ UNCHANGED amountVars

NextRules == AnalyzeWithRules

SpecRules == InitRules /\ [][NextRules]_vars

(***************************************************************************)
(* services/pdf_parser.py: extract_transactions_from_text_regex            *)
(***************************************************************************)
\* Most lines of a text drawn freely, and most continuation lines of the
\* longer statements.
MaxScanLines == 3

MaxContinuation == 6

\* A line of the text, stripped, by its parts: a leading date, the words,
\* a trailing amount; "" for a part the line lacks.
Line(date, body, amount) == [date |-> date, body |-> body, amount |-> amount]

ScanLineCatalogue ==
    { Line("", "", ""),
      Line("", "Withdrawals and other subtractions", ""),
      Line("", "Deposits and other additions", ""),
      Line("", "Total service fees", "-12.00"),
      Line("", "Page 2 of 4", ""),
      Line("", "ONLINE PAYMENT", ""),
      Line("", "REF 778", "-20.00"),
      Line("", "", "45.00"),
      Line("01/15/2024", "NETFLIX.COM", "15.99"),
      Line("01/16/2024", "RENT", "-1,200.00"),
      Line("01/17/2024", "CITY POWER", ""),
      Line("01/18/2024", "1234567890", "-5.00"),
      Line("01/19/2024", "ADJUSTMENT", "0.00"),
      Line("01/20/2024", "Monthly Service Fee", "12.00"),
      Line("01/21/2024", "", "-7.00"),
      Line("02/30/2024", "GYM", "-30.00") }

\* `x in line.lower()` for the marker words of lines 171-181 and 218.
Markers(body) ==
    CASE body = "Withdrawals and other subtractions" -> {"withdrawal", "subtraction"}
      [] body = "Deposits and other additions"       -> {"deposit", "addition"}
      [] body = "Total service fees"  -> {"service fee", "total service", "total "}
      [] body = "Monthly Service Fee" -> {"service fee"}
      [] body = "Page 2 of 4"         -> {"page "}
      [] OTHER                        -> {}

\* parse_date on the date strings drawn: 02/30 fits no format.
pdf_parse_date(date_str) ==
    CASE date_str = "01/15/2024" -> Ord(2024, 1, 15)
      [] date_str = "01/16/2024" -> Ord(2024, 1, 16)
      [] date_str = "01/17/2024" -> Ord(2024, 1, 17)
      [] date_str = "01/18/2024" -> Ord(2024, 1, 18)
      [] date_str = "01/19/2024" -> Ord(2024, 1, 19)
      [] date_str = "01/20/2024" -> Ord(2024, 1, 20)
      [] date_str = "01/21/2024" -> Ord(2024, 1, 21)
      [] OTHER                   -> None

\* parse_amount on the amount strings drawn, in thousandths.
pdf_parse_amount(amount_str) ==
    CASE amount_str = "15.99"     -> SomeAmount(15990)
      [] amount_str = "-1,200.00" -> SomeAmount(0 - 1200000)
      [] amount_str = "45.00"     -> SomeAmount(45000)
      [] amount_str = "-45.00"    -> SomeAmount(0 - 45000)
      [] amount_str = "-20.00"    -> SomeAmount(0 - 20000)
      [] amount_str = "-12.00"    -> SomeAmount(0 - 12000)
      [] amount_str = "12.00"     -> SomeAmount(12000)
      [] amount_str = "-5.00"     -> SomeAmount(0 - 5000)
      [] amount_str = "-7.00"     -> SomeAmount(0 - 7000)
      [] amount_str = "-30.00"    -> SomeAmount(0 - 30000)
      [] amount_str = "0.00"      -> SomeAmount(0)
      [] OTHER                    -> NoAmount

IsBlankLine(line) == line.date = "" /\ line.body = "" /\ line.amount = ""

\* re.match(r'^(\d{1,2}/\d{1,2}/\d{2,4})\s+(.+)', line): a date and more.
StartsWithDate(line) == line.date # "" /\ (line.body # "" \/ line.amount # "")

\* The words of the line as the text before its trailing amount.
WordsOf(line) ==
    (IF line.date = "" THEN <<>> ELSE <<line.date>>)
        \o (IF line.body = "" THEN <<>> ELSE <<line.body>>)

\* A look-ahead that reads the next line only.
LookAheadOneLine(lines, i, j, description) ==
    IF j < Len(lines) /\ ~StartsWithDate(lines[j + 1]) /\ lines[j + 1].amount # ""
    THEN [amount_str |-> lines[j + 1].amount, description |-> description]
    ELSE [amount_str |-> "", description |-> description]

\* The look-ahead of lines 205-241 from line j for the dated line i:
\* [amount_str ("" is None), description].
RECURSIVE LookAhead(_, _, _, _)
LookAhead(lines, i, j, description) ==
    IF ~(j < Len(lines) /\ j < i + 6) THEN [amount_str |-> "", description |-> description]
    ELSE LET next_line == lines[j + 1]
         IN  IF StartsWithDate(next_line) \/ IsBlankLine(next_line)
                \/ Markers(next_line.body) \cap {"total ", "continued", "service fee", "page "} # {}
             THEN [amount_str |-> "", description |-> description]
             ELSE IF next_line.amount # ""
             THEN [amount_str |-> next_line.amount,
                   description |-> description \o WordsOf(next_line)]
             ELSE LookAhead(lines, i, j + 1, description \o WordsOf(next_line))

\* clean_description on a description made of several lines.
RECURSIVE CleanWords(_)
CleanWords(words) ==
    IF words = <<>> THEN <<>>
    ELSE (IF clean_description(Head(words)) = "" THEN <<>>
          ELSE <<clean_description(Head(words))>>) \o CleanWords(Tail(words))

\* A scan that keeps every dated amount, whatever the section and the sign.
AlwaysDebit(amount, section) == TRUE

\* Lines 254-261: is_debit
IsDebit(amount, section) == amount < 0 \/ section

\* Lines 189-273 for the dated line i: the transactions it appends.
DatedLine(lines, i, section) ==
    LET line  == lines[i + 1]
        found == IF line.amount # ""
                 THEN [amount_str |-> line.amount,
                       description |-> IF line.body = "" THEN <<>> ELSE <<line.body>>]
                 ELSE LookAhead(lines, i, i + 1, <<line.body>>)
        date_val == pdf_parse_date(line.date)
        amount   == pdf_parse_amount(found.amount_str)
    IN  IF date_val = None \/ found.amount_str = "" THEN <<>>
        ELSE IF ~amount.some \/ amount.val = 0 THEN <<>>
        ELSE IF ~IsDebit(amount.val, section) THEN <<>>
        ELSE IF CleanWords(found.description) = <<>> THEN <<>>
        ELSE << [date |-> date_val, description |-> CleanWords(found.description),
                 amount |-> Abs(amount.val), original_description |-> found.description] >>

\* Statements with a dated line that lacks its amount, some continuation
\* lines, the amount on a line of its own or at the end of a line, and a
\* dated line after it; with and without a withdrawals heading before.
RECURSIVE Repeated(_, _)
Repeated(line, n) == IF n = 0 THEN <<>> ELSE <<line>> \o Repeated(line, n - 1)

LongStatements ==
    { heading \o <<Line("01/17/2024", "CITY POWER", "")>>
        \o Repeated(Line("", "ONLINE PAYMENT", ""), n)
        \o <<bearer, Line("01/16/2024", "RENT", "-1,200.00")>> :
        heading \in {<<>>, <<Line("", "Withdrawals and other subtractions", "")>>},
        n \in 0..MaxContinuation,
        bearer \in {Line("", "", "45.00"), Line("", "REF 778", "-20.00")} }

InitScan ==
    /\ scan_pc = "scanning"
    /\ scan_lines \in SeqsUpTo(ScanLineCatalogue, MaxScanLines) \cup LongStatements
    /\ scan_i = 0
    /\ in_withdrawals = FALSE
    /\ in_deposits = FALSE
    /\ scan_transactions = <<>>
    /\ scan_src = <<>>
    /\ IdleOccurs
    /\ IdlePdf
    /\ IdleAnalyze
    /\ IdleDetect
    /\ IdleValidate
    /\ IdleCsv
    /\ IdleRules
    /\ IdleUpload
    /\ IdleRelink
    /\ IdleAmount

\* One turn of the while loop of line 161.
ScanLine ==
    /\ scan_pc = "scanning"
    /\ scan_i < Len(scan_lines)
    /\ LET line      == scan_lines[scan_i + 1]
           marks     == Markers(line.body)
           heading_w == {"withdrawal", "subtraction"} \subseteq marks
           heading_d == {"deposit", "addition"} \subseteq marks
           fee       == "service fee" \in marks \/ "total service" \in marks
       IN  IF IsBlankLine(line)
           THEN UNCHANGED <<in_withdrawals, in_deposits, scan_transactions, scan_src>>
           ELSE IF heading_w
           THEN /\ in_withdrawals' = TRUE
                /\ in_deposits' = FALSE
                /\ UNCHANGED <<scan_transactions, scan_src>>
           ELSE IF heading_d
           THEN /\ in_withdrawals' = FALSE
                /\ in_deposits' = TRUE
                /\ UNCHANGED <<scan_transactions, scan_src>>
           ELSE /\ in_withdrawals' = (IF fee THEN FALSE ELSE in_withdrawals)
                /\ in_deposits' = (IF fee THEN FALSE ELSE in_deposits)
                /\ LET new == IF StartsWithDate(line)
                              THEN DatedLine(scan_lines, scan_i, in_withdrawals')
                              ELSE <<>>
                   IN  /\ scan_transactions' = scan_transactions \o new
                       /\ scan_src' = scan_src \o [k \in 1..Len(new) |-> scan_i]
    /\ scan_i' = scan_i + 1
    /\ UNCHANGED <<scan_pc, scan_lines>>
    /\ UNCHANGED occursVars
    /\ UNCHANGED pdfVars
    /\ UNCHANGED analyzeVars
    /\ UNCHANGED detectVars
    /\ UNCHANGED validateVars
    /\ UNCHANGED csvVars
    /\ UNCHANGED rulesVars
    /\ UNCHANGED uploadVars
    /\ UNCHANGED relinkVars
    /\ UNCHANGED amountVars

\* Line 277: `return transactions`, once i has reached len(lines).
ScanReturn ==
    /\ scan_pc = "scanning"
    /\ ~(scan_i < Len(scan_lines))
    /\ scan_pc' = "done"
    /\ UNCHANGED <<scan_lines, scan_i, in_withdrawals, in_deposits, scan_transactions, scan_src>>
    /\ UNCHANGED occursVars
    /\ UNCHANGED pdfVars
    /\ UNCHANGED analyzeVars
    /\ UNCHANGED detectVars
    /\ UNCHANGED validateVars
    /\ UNCHANGED csvVars
    /\ UNCHANGED rulesVars
    /\ UNCHANGED uploadVars
    /\ UNCHANGED relinkVars
    /\ UNCHANGED amountVars

NextScan == ScanLine \/ ScanReturn

SpecScan == InitScan /\ [][NextScan]_vars

\* The while loop runs in one thread and each turn is a finite computation:
\* the scan takes its next step as long as it has one.
SpecScanFair == SpecScan /\ WF_vars(NextScan)

(***************************************************************************)
(* routes/import_statement.py: upload_statement                            *)
(***************************************************************************)
\* Most transactions of an uploaded statement.
MaxUploadTxs == 2

NoBillsWarning == "No recurring bills detected in this statement."

SkippedWarning == "Skipped 1 rows due to missing or invalid data"

\* What the parser does with the file: it raises CSVParseError or
\* PDFParseError, or returns transactions (never none) and warnings.
ParseOutcomes ==
    { [error |-> NoValidTransactionsError, transactions |-> <<>>, warnings |-> <<>>] }
        \cup { [error |-> "", transactions |-> txs, warnings |-> w] :
                 txs \in SeqsUpTo(TxCatalogue, MaxUploadTxs) \ {<<>>},
                 w \in {<<>>, <<SkippedWarning>>} }

\* The tuple a `return a, b, c` of analyze_transactions hands to its caller.
ReturnTuple(r) == <<r.analyzed, r.used_fallback, r.usage>>

\* `a, b = value`: Python raises ValueError unless the tuple has two items.
UnpackTwo(value) ==
    IF Len(value) = 2 THEN [exc |-> NoExc, names |-> value]
    ELSE [exc |-> "ValueError", names |-> <<>>]

HttpError(code, detail) == [NoResponse EXCEPT !.status = code, !.detail = detail]

\* ImportPreviewResponse(success=True, ...) (lines 99-114)
ImportPreviewResponse(total, bills, warns, fallback) ==
    [ status |-> 200, detail |-> "", success |-> TRUE, total_transactions |-> total,
      analyzed_bills |-> bills, parsing_warnings |-> warns, used_fallback |-> fallback ]

InitUpload ==
    /\ up_pc = "start"
    /\ up_parse \in ParseOutcomes
    /\ up_currency \in Currencies
    /\ up_ai = NoClaudeCall
    /\ up_analysis = NoResult
    /\ up_response = NoResponse
    /\ IdleOccurs
    /\ IdlePdf
    /\ IdleAnalyze
    /\ IdleDetect
    /\ IdleValidate
    /\ IdleCsv
    /\ IdleRules
    /\ IdleScan
    /\ IdleRelink
    /\ IdleAmount

\* Lines 77-91: the parser raised, the request ends with status 400.
UploadParseFails ==
    /\ up_pc = "start"
    /\ up_parse.error # ""
    /\ up_response' = HttpError(400, up_parse.error)
    /\ up_pc' = "done"
    /\ UNCHANGED <<up_parse, up_currency, up_ai, up_analysis>>
    /\ UNCHANGED occursVars
    /\ UNCHANGED pdfVars
    /\ UNCHANGED analyzeVars
    /\ UNCHANGED detectVars
    /\ UNCHANGED validateVars
    /\ UNCHANGED csvVars
    /\ UNCHANGED rulesVars
    /\ UNCHANGED scanVars
    /\ UNCHANGED relinkVars
    /\ UNCHANGED amountVars

\* Lines 77-81: `transactions, warnings = parse_csv(content)`.
UploadParsed ==
    /\ up_pc = "start"
    /\ up_parse.error = ""
    /\ up_pc' = "parsed"
    /\ UNCHANGED <<up_parse, up_currency, up_ai, up_analysis, up_response>>
    /\ UNCHANGED occursVars
    /\ UNCHANGED pdfVars
    /\ UNCHANGED analyzeVars
    /\ UNCHANGED detectVars
    /\ UNCHANGED validateVars
    /\ UNCHANGED csvVars
    /\ UNCHANGED rulesVars
    /\ UNCHANGED scanVars
    /\ UNCHANGED relinkVars
    /\ UNCHANGED amountVars

\* Line 97, right-hand side: `await analyze_transactions(transactions, currency)`.
UploadAnalyze ==
    /\ up_pc = "parsed"
    /\ \E o \in AnalysisOutcomes, tie \in TieRanks :
        /\ up_ai' = o
        /\ up_analysis' = analyze_transactions(up_parse.transactions, up_currency, o, tie)
    /\ up_pc' = "analyzed"
    /\ UNCHANGED <<up_parse, up_currency, up_response>>
    /\ UNCHANGED occursVars
    /\ UNCHANGED pdfVars
    /\ UNCHANGED analyzeVars
    /\ UNCHANGED detectVars
    /\ UNCHANGED validateVars
    /\ UNCHANGED csvVars
    /\ UNCHANGED rulesVars
    /\ UNCHANGED scanVars
    /\ UNCHANGED relinkVars
    /\ UNCHANGED amountVars

\* Lines 97-114: `analyzed, used_fallback = ...` and the response.  An
\* exception nothing catches ends the request with status 500.
UploadRespond ==
    /\ up_pc = "analyzed"
    /\ up_response' =
        IF up_analysis.exc # NoExc THEN HttpError(500, up_analysis.exc)
        ELSE LET unpacked == UnpackTwo(ReturnTuple(up_analysis))
             IN  IF unpacked.exc # NoExc THEN HttpError(500, unpacked.exc)
                 ELSE LET analyzed      == unpacked.names[1]
                          used_fallback == unpacked.names[2]
                          total         == Len(up_parse.transactions)
                      IN  IF analyzed = <<>>
                          THEN ImportPreviewResponse(total, <<>>,
                                   up_parse.warnings \o <<NoBillsWarning>>, used_fallback)
                          ELSE ImportPreviewResponse(total, analyzed,
                                   up_parse.warnings, used_fallback)
    /\ up_pc' = "done"
    /\ UNCHANGED <<up_parse, up_currency, up_ai, up_analysis>>
    /\ UNCHANGED occursVars
    /\ UNCHANGED pdfVars
    /\ UNCHANGED analyzeVars
    /\ UNCHANGED detectVars
    /\ UNCHANGED validateVars
    /\ UNCHANGED csvVars
    /\ UNCHANGED rulesVars
    /\ UNCHANGED scanVars
    /\ UNCHANGED relinkVars
    /\ UNCHANGED amountVars

NextUpload == UploadParseFails \/ UploadParsed \/ UploadAnalyze \/ UploadRespond

SpecUpload == InitUpload /\ [][NextUpload]_vars

(***************************************************************************)
(* analyze_transactions: the re-linking of an AI item (lines 276-310)      *)
(***************************************************************************)
\* Most input transactions and most declared descriptions of the item.
MaxRelinkTxs == 2

MaxDeclared == 2

\* The descriptions an AI item declares: one of the input as it stands, one
\* that normalizes to the same key, a shorter and a longer one (substring
\* either way), one that normalizes to the empty string, one that matches
\* nothing, and one of another merchant.
DeclaredDescriptions ==
    { "NETFLIX.COM", "NETFLIX.COM #12345", "netflix", "NETFLIX.COM MONTHLY",
      "12345", "zzz", "JOES PLUMBING" }

\* The item the AI answers with, for the declared descriptions.
DeclaringItem(descs) ==
    AnalysisItem("Netflix", TRUE, 15990, "SUBSCRIPTION", "MONTHLY", 95, 15, None, descs)

InitRelink ==
    /\ rl_pc = "start"
    /\ rl_txs \in SeqsUpTo(TxCatalogue, MaxRelinkTxs) \ {<<>>}
    /\ rl_descs \in SeqsUpTo(DeclaredDescriptions, MaxDeclared)
    /\ rl_matching = <<>>
    /\ rl_result = NoResult
    /\ IdleOccurs
    /\ IdlePdf
    /\ IdleAnalyze
    /\ IdleDetect
    /\ IdleValidate
    /\ IdleCsv
    /\ IdleRules
    /\ IdleUpload
    /\ IdleScan
    /\ IdleAmount

\* analyze_transactions when the AI answers with the one item.
Relink ==
    /\ rl_pc = "start"
    /\ \E cur \in Currencies, tie \in TieRanks :
        rl_result' = analyze_transactions(rl_txs, cur,
                        ClaudeAnswer("array", <<DeclaringItem(rl_descs)>>), tie)
    /\ rl_matching' = MatchingTxs(validate_analyzed_transaction(DeclaringItem(rl_descs))[1], rl_txs)
    /\ rl_pc' = "done"
    /\ UNCHANGED <<rl_txs, rl_descs>>
    /\ UNCHANGED occursVars
    /\ UNCHANGED pdfVars
    /\ UNCHANGED analyzeVars
    /\ UNCHANGED detectVars
    /\ UNCHANGED validateVars
    /\ UNCHANGED csvVars
    /\ UNCHANGED rulesVars
    /\ UNCHANGED uploadVars
    /\ UNCHANGED scanVars
    /\ UNCHANGED amountVars

NextRelink == Relink

SpecRelink == InitRelink /\ [][NextRelink]_vars

(***************************************************************************)
(* parse_amount of services/csv_parser.py and of services/pdf_parser.py,   *)
(* on the text as a sequence of characters                                 *)
(***************************************************************************)
\* Most digit groups of an amount text.
MaxGroups == 3

Digits == {"0", "1", "2", "3", "4", "5", "6", "7", "8", "9"}

\* re.sub(r'[^\d.,\-]', '', text): the characters that stay.
RECURSIVE KeepAmountChars(_)
KeepAmountChars(chars) ==
    IF chars = <<>> THEN <<>>
    ELSE (IF Head(chars) \in Digits \cup {".", ",", "-"} THEN <<Head(chars)>> ELSE <<>>)
            \o KeepAmountChars(Tail(chars))

\* `c in text`
HasChar(chars, c) == \E i \in 1..Len(chars) : chars[i] = c

\* text.rfind(c), counted from 1; 0 when c does not occur
RFindChar(chars, c) ==
    LET at == { i \in 1..Len(chars) : chars[i] = c }
    IN  IF at = {} THEN 0 ELSE SetMax(at)

\* text.replace(c, '')
RECURSIVE RemoveChar(_, _)
RemoveChar(chars, c) ==
    IF chars = <<>> THEN <<>>
    ELSE (IF Head(chars) = c THEN <<>> ELSE <<Head(chars)>>) \o RemoveChar(Tail(chars), c)

\* text.replace(c, d)
ReplaceChar(chars, c, d) == [i \in 1..Len(chars) |-> IF chars[i] = c THEN d ELSE chars[i]]

\* text.split(c): the pieces between the occurrences of c.
RECURSIVE SplitAt(_, _)
SplitAt(chars, c) ==
    LET at == { i \in 1..Len(chars) : chars[i] = c }
    IN  IF at = {} THEN <<chars>>
        ELSE <<SubSeq(chars, 1, SetMin(at) - 1)>>
                \o SplitAt(SubSeq(chars, SetMin(at) + 1, Len(chars)), c)

\* Decimal(text) on texts of digits, points, commas and minus signs: an
\* optional leading sign, digits with at most one point, a digit at least;
\* anything else raises InvalidOperation (None here).
DecimalOf(chars) ==
    LET neg   == chars # <<>> /\ chars[1] = "-"
        body  == IF neg THEN Tail(chars) ELSE chars
        point == RFindChar(body, ".")
        int   == IF point = 0 THEN body ELSE SubSeq(body, 1, point - 1)
        frac  == IF point = 0 THEN <<>> ELSE SubSeq(body, point + 1, Len(body))
    IN  IF /\ \A i \in 1..Len(int) : int[i] \in Digits
           /\ \A i \in 1..Len(frac) : frac[i] \in Digits
           /\ Len(int) + Len(frac) > 0
        THEN [some |-> TRUE, neg |-> neg, int |-> int, frac |-> frac]
        ELSE NoDecimal

\* A parser that always takes the point for the decimal separator.
PointIsDecimal(chars) == DecimalOf(RemoveChar(KeepAmountChars(chars), ","))

\* csv_parser.parse_amount (lines 112-144)
parse_amount_csv(chars) ==
    IF chars = <<>> THEN NoDecimal
    ELSE LET cleaned == KeepAmountChars(chars)
         IN  IF cleaned = <<>> THEN NoDecimal
             ELSE IF HasChar(cleaned, ",") /\ HasChar(cleaned, ".")
             THEN IF RFindChar(cleaned, ",") > RFindChar(cleaned, ".")
                  THEN DecimalOf(ReplaceChar(RemoveChar(cleaned, "."), ",", "."))
                  ELSE DecimalOf(RemoveChar(cleaned, ","))
             ELSE IF HasChar(cleaned, ",")
             THEN LET parts == SplitAt(cleaned, ",")
                  IN  IF Len(parts) = 2 /\ Len(parts[2]) <= 2
                      THEN DecimalOf(ReplaceChar(cleaned, ",", "."))
                      ELSE DecimalOf(RemoveChar(cleaned, ","))
             ELSE DecimalOf(cleaned)

\* pdf_parser.parse_amount (lines 105-131)
parse_amount_pdf(chars) ==
    IF chars = <<>> THEN NoDecimal
    ELSE LET cleaned == KeepAmountChars(chars)
         IN  IF cleaned = <<>> THEN NoDecimal
             ELSE IF HasChar(cleaned, ",") /\ HasChar(cleaned, ".")
             THEN IF RFindChar(cleaned, ",") > RFindChar(cleaned, ".")
                  THEN DecimalOf(ReplaceChar(RemoveChar(cleaned, "."), ",", "."))
                  ELSE DecimalOf(RemoveChar(cleaned, ","))
             ELSE IF HasChar(cleaned, ",")
             THEN LET parts == SplitAt(cleaned, ",")
                  IN  IF Len(parts) = 2 /\ Len(parts[2]) <= 2
                      THEN DecimalOf(ReplaceChar(cleaned, ",", "."))
                      ELSE DecimalOf(RemoveChar(cleaned, ","))
             ELSE DecimalOf(cleaned)

\* The digit groups and the separators an amount text is written with.
DigitGroups == { <<>>, <<"1">>, <<"5">>, <<"1", "2">>, <<"5", "6">>, <<"2", "3", "4">> }

Separators == {",", ".", " "}

\* The amount texts drawn, by their parts: sign, currency sign, one to
\* MaxGroups digit groups with a separator between two, a trailing sign.
AmountParts ==
    UNION { { [sign |-> sg, currency |-> cu, groups |-> gs, seps |-> ss, suffix |-> sx] :
                sg \in {"", "-"}, cu \in {"", "$"},
                gs \in [1..n -> DigitGroups], ss \in [1..(n - 1) -> Separators],
                sx \in {"", "-"} } : n \in 1..MaxGroups }

RECURSIVE JoinGroups(_, _)
JoinGroups(groups, seps) ==
    IF Len(groups) = 1 THEN groups[1]
    ELSE groups[1] \o <<seps[1]>> \o JoinGroups(Tail(groups), Tail(seps))

\* The text of the parts, character by character.
TextOf(parts) ==
    (IF parts.sign = "" THEN <<>> ELSE <<parts.sign>>)
        \o (IF parts.currency = "" THEN <<>> ELSE <<parts.currency>>)
        \o JoinGroups(parts.groups, parts.seps)
        \o (IF parts.suffix = "" THEN <<>> ELSE <<parts.suffix>>)

InitAmount ==
    /\ amt_pc = "start"
    /\ amt_parts \in AmountParts
    /\ amt_text = TextOf(amt_parts)
    /\ amt_csv = NoDecimal
    /\ amt_pdf = NoDecimal
    /\ IdleOccurs
    /\ IdlePdf
    /\ IdleAnalyze
    /\ IdleDetect
    /\ IdleValidate
    /\ IdleCsv
    /\ IdleRules
    /\ IdleUpload
    /\ IdleScan
    /\ IdleRelink

\* Both parsers are handed the same text.
ParseAmount ==
    /\ amt_pc = "start"
    /\ amt_csv' = parse_amount_csv(amt_text)
    /\ amt_pdf' = parse_amount_pdf(amt_text)
    /\ amt_pc' = "done"
    /\ UNCHANGED <<amt_parts, amt_text>>
    /\ UNCHANGED occursVars
    /\ UNCHANGED pdfVars
    /\ UNCHANGED analyzeVars
    /\ UNCHANGED detectVars
    /\ UNCHANGED validateVars
    /\ UNCHANGED csvVars
    /\ UNCHANGED rulesVars
    /\ UNCHANGED uploadVars
    /\ UNCHANGED scanVars
    /\ UNCHANGED relinkVars

NextAmount == ParseAmount

SpecAmount == InitAmount /\ [][NextAmount]_vars

(***************************************************************************)
(* The recurrence evaluator's contract                                     *)
(***************************************************************************)
Evaluated == check_date # None

InWindow(p, x) == p.start_date <= x /\ (p.end_date = None \/ x <= p.end_date)

\* The last day of x's month, from the calendar alone.
LastOfMonth(x) == DaysInMonth(YearOf(x), MonthOf(x))

SameMonth(x, z) == YearOf(x) = YearOf(z) /\ MonthOf(x) = MonthOf(z)

\* C1: for every recurrence type, a date before start_date, or after a set
\* end_date, is never an occurrence: every occurrence lies in [start_date, end_date].
C1_OccurrencesInsideWindow ==
    Evaluated =>
        /\ (check_date < payment.start_date => occurs = FALSE)
        /\ (payment.end_date # None /\ check_date > payment.end_date => occurs = FALSE)
        /\ (occurs => InWindow(payment, check_date))

\* A WEEKLY definition asked about its own weekday after its end_date.
C1_Witness ==
    /\ Evaluated
    /\ payment.recurrence = "WEEKLY"
    /\ payment.end_date # None
    /\ check_date > payment.end_date
    /\ Weekday(check_date) = AnchorWeekday(payment)
    /\ occurs = FALSE

\* C2: a MONTHLY definition with anchor a fires, inside its window, exactly on
\* day min(a, length of the month): anchor 31 fires on Apr-30 and on the last
\* day of February, and no month holds two occurrences.
C2_MonthlyClamped ==
    (Evaluated /\ payment.recurrence = "MONTHLY" /\ InWindow(payment, check_date)) =>
        LET a == AnchorDay(payment)
            x == check_date
        IN  /\ a \in 1..31
            /\ occurs = (DayOf(x) = Min(a, LastOfMonth(x)))
            /\ (a = 31 /\ MonthOf(x) \in {2, 4} /\ DayOf(x) = LastOfMonth(x) => occurs)
            /\ (occurs =>
                  \A z \in (x - 30)..(x + 30) :
                      (z \in Dates /\ z # x /\ SameMonth(x, z))
                          => ~payment_occurs_on_date(payment, z))

\* Anchor 31 asked about April 30.
C2_Witness ==
    /\ Evaluated
    /\ payment.recurrence = "MONTHLY"
    /\ payment.day_of_month = 31
    /\ MonthOf(check_date) = 4 /\ DayOf(check_date) = 30
    /\ occurs = TRUE

\* C3: an ANNUAL definition that starts in February with anchor day 29 fires,
\* inside its window, exactly on the last day of February: Feb-28 in a
\* non-leap year, Feb-29 in a leap year, never Mar-1 or any other date.
C3_AnnualLeapDay ==
    (/\ Evaluated
     /\ payment.recurrence = "ANNUAL"
     /\ MonthOf(payment.start_date) = 2
     /\ AnchorDay(payment) = 29
     /\ InWindow(payment, check_date)) =>
        LET x == check_date
        IN  occurs = (/\ MonthOf(x) = 2
                      /\ DayOf(x) = (IF IsLeap(YearOf(x)) THEN 29 ELSE 28))

\* A leap-day definition asked about Feb-28 of a non-leap year.
C3_Witness ==
    /\ Evaluated
    /\ payment.recurrence = "ANNUAL"
    /\ MonthOf(payment.start_date) = 2 /\ DayOf(payment.start_date) = 29
    /\ ~IsLeap(YearOf(check_date))
    /\ MonthOf(check_date) = 2 /\ DayOf(check_date) = 28
    /\ occurs = TRUE

\* The first date >= start_date whose weekday is the anchor weekday.
FirstAnchorDate(p) ==
    p.start_date + ((AnchorWeekday(p) - Weekday(p.start_date) + 7) % 7)

\* The position (1, 2, 3, ...) of x among the dates >= start_date on the anchor weekday.
AnchorIndex(p, x) == ((x - FirstAnchorDate(p)) \div 7) + 1

\* C4 as stated: on every date >= start_date on the anchor weekday, BIWEEKLY
\* is true on the 1st, 3rd, 5th, ... and false on the 2nd, 4th, ...
C4_AsStated ==
    (/\ Evaluated
     /\ payment.recurrence = "BIWEEKLY"
     /\ check_date >= payment.start_date
     /\ Weekday(check_date) = AnchorWeekday(payment)) =>
        occurs = (AnchorIndex(payment, check_date) % 2 = 1)

\* C4 (amended): among the dates of the active window on the anchor weekday,
\* BIWEEKLY is true on the 1st, 3rd, 5th, ... counted from start_date and false
\* on the 2nd, 4th, ...; it is false on every other weekday; after an
\* occurrence the next 13 days hold none and the 14th day is one when it is
\* still inside the window.
C4_BiweeklyEveryOther ==
    (Evaluated /\ payment.recurrence = "BIWEEKLY" /\ InWindow(payment, check_date)) =>
        LET x == check_date
        IN  /\ Weekday(x) = AnchorWeekday(payment)
               => occurs = (AnchorIndex(payment, x) % 2 = 1)
            /\ Weekday(x) # AnchorWeekday(payment) => occurs = FALSE
            /\ occurs =>
                 /\ \A j \in 1..13 :
                       (x + j) \in Dates => ~payment_occurs_on_date(payment, x + j)
                 /\ ((x + 14) \in Dates /\ InWindow(payment, x + 14))
                       => payment_occurs_on_date(payment, x + 14)

\* An off-week date: the anchor weekday differs from start_date's weekday and
\* the date is the 2nd anchor weekday after start_date.
C4_Witness ==
    /\ Evaluated
    /\ payment.recurrence = "BIWEEKLY"
    /\ payment.day_of_week # None
    /\ payment.day_of_week # Weekday(payment.start_date)
    /\ InWindow(payment, check_date)
    /\ Weekday(check_date) = payment.day_of_week
    /\ AnchorIndex(payment, check_date) = 2
    /\ occurs = FALSE

\* C5: a QUARTERLY definition with anchor a fires, inside its window, exactly
\* when the day is min(a, length of the month) and the calendar months since
\* start_date's month are a multiple of 3.
C5_QuarterlyEveryThirdMonth ==
    (Evaluated /\ payment.recurrence = "QUARTERLY" /\ InWindow(payment, check_date)) =>
        LET x == check_date
            s == payment.start_date
            months == (YearOf(x) - YearOf(s)) * 12 + (MonthOf(x) - MonthOf(s))
        IN  occurs = (/\ DayOf(x) = Min(AnchorDay(payment), LastOfMonth(x))
                      /\ months % 3 = 0)

\* A quarter that crosses the year end and is clamped: Nov-30 to the end of February.
C5_Witness ==
    /\ Evaluated
    /\ payment.recurrence = "QUARTERLY"
    /\ MonthOf(payment.start_date) = 11
    /\ YearOf(check_date) = YearOf(payment.start_date) + 1
    /\ MonthOf(check_date) = 2
    /\ DayOf(check_date) = LastOfMonth(check_date)
    /\ occurs = TRUE

(***************************************************************************)
(* The PDF normalizer's contract                                           *)
(***************************************************************************)
PdfDone == pdf_pc \in {"returned", "raised"}

\* The fatal PDFParseError messages of parse_pdf.
DocumentErrors ==
    { "PDF file is empty", "PDF is encrypted", "Failed to open PDF",
      "PDF contains no pages", "Failed to extract text from PDF",
      "Could not extract text from PDF" }

\* What each layer's input holds, read off the input alone.
TextFinds == regex_out.exc = NoExc /\ regex_out.txs # <<>>

IsDebitRow(row) ==
    row.cells >= 2 /\ row.date # None /\ row.amount # None /\ row.amount < 0

TableFinds ==
    /\ tables_out.exc = NoExc
    /\ \E i \in 1..Len(tables_out.tables) :
          \E j \in 1..Len(tables_out.tables[i]) : IsDebitRow(tables_out.tables[i][j])

IsValidItem(item) ==
    item.dict /\ item.date # None /\ item.description # "" /\ item.amount # None
        /\ item.amount > 0

AiAnswersValidItem ==
    /\ claude_out.kind = "ok"
    /\ claude_out.json = "array"
    /\ \E i \in 1..Len(claude_out.items) : IsValidItem(claude_out.items[i])

DescriptionsOf(txs) == { txs[i].description : i \in 1..Len(txs) }

IsSortedByDate(txs) == \A i \in 1..(Len(txs) - 1) : txs[i].date <= txs[i + 1].date

\* C6: the layers run in the order text, table, AI, each at most once; when
\* the text scan finds a transaction neither the table layer nor the AI layer
\* (nor the Claude API) is invoked; the AI layer is invoked only after both
\* other layers produced nothing; a returned list holds the transactions of
\* exactly one layer.
C6_FirstLayerWins ==
    /\ calls.regex <= 1 /\ calls.table <= 1 /\ calls.llm <= 1 /\ calls.claude <= calls.llm
    /\ calls.table = 1 => (calls.regex = 1 /\ ~TextFinds)
    /\ calls.llm = 1 => (calls.table = 1 /\ ~TextFinds /\ ~TableFinds)
    /\ (calls.regex = 1 /\ TextFinds) =>
          /\ calls.table = 0 /\ calls.llm = 0 /\ calls.claude = 0
          /\ pdf_pc = "returned"
          /\ Len(all_transactions) = Len(regex_out.txs)
    /\ pdf_pc = "returned" =>
          /\ all_transactions # <<>>
          /\ IsSortedByDate(all_transactions)
          /\ \/ (TextFinds /\ DescriptionsOf(all_transactions) \subseteq TextDescriptions)
             \/ (~TextFinds /\ TableFinds /\ calls.llm = 0
                   /\ DescriptionsOf(all_transactions) \subseteq
                        { clean_description(d) : d \in TableDescriptions })
             \/ (~TextFinds /\ ~TableFinds /\ calls.llm = 1
                   /\ DescriptionsOf(all_transactions) \subseteq AiDescriptions)

\* The text scan found two transactions and parse_pdf returned them.
C6_Witness ==
    /\ pdf_pc = "returned"
    /\ TextFinds
    /\ Len(all_transactions) = 2
    /\ calls = [regex |-> 1, table |-> 0, llm |-> 0, claude |-> 0]

\* The transactions of the valid items of the AI's array, in the array's order.
RECURSIVE ValidItemTransactions(_)
ValidItemTransactions(items) ==
    IF items = <<>> THEN <<>>
    ELSE (IF IsValidItem(Head(items))
          THEN <<ParsedTransaction(Head(items).date, Head(items).description,
                                   Head(items).amount)>>
          ELSE <<>>) \o ValidItemTransactions(Tail(items))

\* C7: when the text and table layers yield nothing and the AI answers with a
\* JSON array holding at least one valid item, parse_pdf returns exactly the
\* valid items (sorted by date) instead of failing.
C7_AiItemsReturned ==
    (PdfDone /\ calls.llm = 1 /\ AiAnswersValidItem) =>
        /\ pdf_pc = "returned"
        /\ all_transactions = SortByDate(ValidItemTransactions(claude_out.items))

\* C8: when all three layers yield nothing (the AI answers an empty or
\* malformed array, only invalid items, or fails as unavailable or with
\* another error) parse_pdf raises the no-transactions parse error; whatever
\* parse_pdf raises is one of its own parse errors, never an AI error; a
\* failure of the text or table layer only moves on to the next layer.
C8_NoTransactionsError ==
    /\ (PdfDone /\ calls.llm = 1 /\ ~AiAnswersValidItem) =>
          (pdf_pc = "raised" /\ pdf_error = "No transactions found in PDF")
    /\ pdf_pc = "raised" =>
          pdf_error \in DocumentErrors \cup {"No transactions found in PDF"}
    /\ pdf_pc # "raised" => pdf_error = NoExc
    /\ (calls.regex = 1 /\ regex_out.exc # NoExc) =>
          (calls.table = 1 \/ pdf_pc = "layer2")
    /\ (calls.table = 1 /\ tables_out.exc # NoExc) =>
          (calls.llm = 1 \/ pdf_pc = "layer3")

\* The text scan and the table extraction both failed, the API was
\* unreachable, and the caller got the no-transactions error.
C8_Witness ==
    /\ pdf_pc = "raised"
    /\ regex_out.exc # NoExc
    /\ tables_out.exc # NoExc
    /\ claude_out.kind = "unavailable"
    /\ calls.claude = 1
    /\ pdf_error = "No transactions found in PDF"

\* C9: empty input, a document that cannot be opened, an encrypted document, a
\* document with no pages and a text shorter than 50 characters each make
\* parse_pdf raise its parse error with no layer (and no Claude call) invoked.
C9_FatalBeforeLayers ==
    LET d == pdf_doc
        fatal == d.empty \/ d.open # "ok" \/ d.pages = 0 \/ d.text_len < MinTextLen
    IN  (pdf_pc # "idle" /\ fatal) =>
          /\ calls = NoCalls
          /\ pdf_pc \in {"validate", "raised"}
          /\ pdf_pc = "raised" =>
                /\ pdf_error \in DocumentErrors
                /\ d.empty => pdf_error = "PDF file is empty"
                /\ (~d.empty /\ d.open = "encrypted") => pdf_error = "PDF is encrypted"
                /\ (~d.empty /\ d.open = "error") => pdf_error = "Failed to open PDF"
                /\ (~d.empty /\ d.open = "ok" /\ d.pages = 0)
                      => pdf_error = "PDF contains no pages"
                /\ (~d.empty /\ d.open = "ok" /\ d.pages > 0 /\ d.extract = "ok")
                      => pdf_error = "Could not extract text from PDF"

\* A readable document whose text is one character short of the minimum.
C9_Witness ==
    /\ pdf_pc = "raised"
    /\ pdf_doc.open = "ok" /\ pdf_doc.pages > 0 /\ pdf_doc.extract = "ok"
    /\ pdf_doc.text_len = MinTextLen - 1
    /\ pdf_error = "Could not extract text from PDF"
    /\ calls = NoCalls


(***************************************************************************)
(* The analysis orchestrator's contract                                    *)
(***************************************************************************)
AnalyzeDone == an_pc = "done"

\* The AI call of this run failed with ClaudeUnavailableError.
AiUnavailable == ai_out.kind = "unavailable" /\ llm_ret.exc = "ClaudeUnavailableError"

\* The candidates the rule-based classifier produces for the run's input,
\* read off the groups directly: every kept group, most confident first.
RuleBasedFinds(analyzed) ==
    LET groups == group_transactions(transactions)
        kept   == { i \in 1..Len(groups) : GroupKept(groups[i]) }
    IN  /\ Len(analyzed) = Cardinality(kept)
        /\ \A i \in kept : \E j \in 1..Len(analyzed) :
              /\ analyzed[j].suggested_name = clean_merchant_name(groups[i].txs[1].description)
              /\ analyzed[j].occurrence_count = Len(groups[i].txs)
              /\ analyzed[j].currency = currency
        /\ \A j \in 1..(Len(analyzed) - 1) :
              analyzed[j].confidence >= analyzed[j + 1].confidence

\* C10: for every non-empty transaction list, when the AI call fails with
\* ClaudeUnavailableError, analyze_transactions raises no error, returns
\* exactly the candidates the rule-based classifier produces, and reports
\* used_fallback = TRUE.
C10_UnavailableFallsBack ==
    (AnalyzeDone /\ transactions # <<>> /\ AiUnavailable) =>
        /\ an_result.exc = NoExc
        /\ an_result.used_fallback = TRUE
        /\ RuleBasedFinds(an_result.analyzed)

\* The fallback of an unavailable AI has run on a statement with a kept group.
FallbackRan ==
    /\ AnalyzeDone
    /\ AiUnavailable
    /\ an_result.exc = NoExc
    /\ an_result.used_fallback
    /\ Len(an_result.analyzed) >= 2

\* The same fallback, on statements whose kept groups all average to at
\* least half a cent.
FallbackAboveHalfCent ==
    (AnalyzeDone /\ transactions # <<>> /\ AiUnavailable
       /\ \A i \in 1..Len(group_transactions(transactions)) :
             LET g == group_transactions(transactions)[i]
             IN  GroupKept(g) => RoundedCents(SumOf(MapAmounts(g.txs)), Len(g.txs)) > 0) =>
        /\ an_result.exc = NoExc
        /\ an_result.used_fallback = TRUE
        /\ RuleBasedFinds(an_result.analyzed)

\* The AI call of this run succeeded and left no validated candidate.
AiYieldsNothing ==
    /\ ai_out.kind = "ok"
    /\ llm_ret.exc = NoExc
    /\ llm_ret.validated = <<>>

\* The candidates returned are the validated AI items, in the AI's order.
AiCandidatesReturned(analyzed) ==
    /\ Len(analyzed) = Len(llm_ret.validated)
    /\ \A i \in 1..Len(analyzed) :
          /\ analyzed[i].suggested_name = llm_ret.validated[i].suggested_name
          /\ analyzed[i].average_amount = llm_ret.validated[i].average_amount

\* C11: when the AI call succeeds but yields zero validated candidates (an
\* empty array, malformed JSON, or every item discarded), analyze returns the
\* rule-based classifier's candidates with used_fallback = TRUE; and
\* used_fallback is FALSE only when at least one AI candidate is returned.
C11_EmptyAiFallsBack ==
    /\ (AnalyzeDone /\ AiYieldsNothing) =>
          /\ an_result.exc = NoExc
          /\ an_result.used_fallback = TRUE
          /\ RuleBasedFinds(an_result.analyzed)
    /\ (AnalyzeDone /\ an_result.exc = NoExc /\ ~an_result.used_fallback) =>
          /\ Len(an_result.analyzed) >= 1
          /\ AiCandidatesReturned(an_result.analyzed)

\* The AI call of this run raised ClaudeUnavailableError or ClaudeError.
AiCallFailed == ai_out.kind \in {"unavailable", "error"} /\ IsClaudeError(llm_ret.exc)

\* The statement of C12 as written: every returning run that used the AI
\* candidates or fell back carries the usage of the AI attempt.
C12_AsStated ==
    (AnalyzeDone /\ an_result.exc = NoExc
       /\ (an_result.used_fallback \/ an_result.analyzed # <<>>)) =>
        an_result.usage = <<AIUsageStats>>

\* C12 (amended): whenever the AI call succeeded and analyze returns, the
\* third result is the usage of that call, both when the AI candidates are
\* used and when an empty AI result triggers the rule-based fallback; when
\* the AI call itself failed, analyze falls back and the third result is
\* None; a run in which analyze raises returns no usage at all.
C12_UsageWhenCallSucceeded ==
    AnalyzeDone =>
        /\ (an_result.exc = NoExc /\ ai_out.kind = "ok") =>
              an_result.usage = <<AIUsageStats>>
        /\ (an_result.exc = NoExc /\ AiCallFailed) =>
              an_result.usage = <<>> /\ an_result.used_fallback
        /\ an_result.exc # NoExc => an_result.usage = <<>>

\* An empty AI answer was followed by a fallback that found candidates and
\* still returned the usage of the call.
C12_Witness ==
    /\ AnalyzeDone
    /\ AiYieldsNothing
    /\ an_result.exc = NoExc
    /\ an_result.used_fallback
    /\ an_result.analyzed # <<>>
    /\ an_result.usage = <<AIUsageStats>>

\* C13: in any analysis run the AI capability is called at most once (after
\* a failed or empty attempt the rule-based classifier runs at once, with no
\* second AI call), and the run always terminates with a result.  Stated on
\* the states of a run: never more than one AI call, and a run that has
\* ended has ended with a result, the fallback's after a failed or empty
\* attempt.
C13_SingleAttemptThenResult ==
    /\ ai_calls <= 1
    /\ AnalyzeDone =>
          /\ an_result.exc = NoExc
          /\ (AiCallFailed \/ AiYieldsNothing) => an_result.used_fallback

\* What holds of every run: at most one AI call, made before the run ends,
\* and the fallback after every failed or empty attempt that returns.
SingleAttempt ==
    /\ ai_calls <= 1
    /\ (AnalyzeDone /\ transactions # <<>>) => ai_calls = 1
    /\ (AnalyzeDone /\ an_result.exc = NoExc /\ (AiCallFailed \/ AiYieldsNothing)) =>
          an_result.used_fallback

(***************************************************************************)
(* Recurrence inference's contract                                         *)
(***************************************************************************)
Detected == det_result # <<>>

Earliest == SetMin(SeqToSet(det_dates))

Latest == SetMax(SeqToSet(det_dates))

\* lo <= m <= hi for the mean m = (latest - earliest) / (n - 1)
MeanWithin(lo, hi) ==
    /\ lo * (Len(det_dates) - 1) <= Latest - Earliest
    /\ Latest - Earliest <= hi * (Len(det_dates) - 1)

\* The recurrence the bands give to the mean gap.
BandOfMean ==
    CASE MeanWithin(5, 9)     -> "WEEKLY"
      [] MeanWithin(12, 16)   -> "BIWEEKLY"
      [] MeanWithin(25, 35)   -> "MONTHLY"
      [] MeanWithin(85, 100)  -> "QUARTERLY"
      [] MeanWithin(350, 380) -> "ANNUAL"
      [] OTHER                -> "MONTHLY"

\* C14: recurrence inference on a single date returns ONETIME with no
\* anchor; on n >= 2 dates, in any input order, it classifies by the mean
\* m = (latest - earliest) / (n - 1) of the gaps of the sorted dates, with
\* inclusive bands [5,9] WEEKLY, [12,16] BIWEEKLY, [25,35] MONTHLY,
\* [85,100] QUARTERLY, [350,380] ANNUAL, and MONTHLY for every other mean.
C14_ClassifiedByMeanGap ==
    Detected =>
        /\ Len(det_dates) = 1 => det_result = <<"ONETIME", None, None>>
        /\ Len(det_dates) >= 2 => det_result[1] = BandOfMean

\* Three dates given out of order whose mean gap, 8.5 days, is no whole
\* number and lies in the weekly band.
C14_Witness ==
    /\ Detected
    /\ Len(det_dates) = 3
    /\ det_dates[1] > det_dates[2]
    /\ 2 * 8 < Latest - Earliest /\ Latest - Earliest < 2 * 9
    /\ det_result[1] = "WEEKLY"

\* How many of the dates given fall on weekday w, and on day-of-month d.
OnWeekday(w) == Cardinality({ i \in 1..Len(det_dates) : Weekday(det_dates[i]) = w })

OnDay(d) == Cardinality({ i \in 1..Len(det_dates) : DayOf(det_dates[i]) = d })

\* C15: the anchor returned by recurrence inference is, for WEEKLY and
\* BIWEEKLY, a weekday of maximal frequency among the dates; for MONTHLY and
\* QUARTERLY (the default MONTHLY included), a day-of-month of maximal
\* frequency; for ANNUAL, the day-of-month of the earliest date.  So three
\* transactions on the 15th of three consecutive months infer MONTHLY with
\* anchor 15, and the rule-based confidence of three occurrences is above 0.5.
C15_AnchorIsMode ==
    (Detected /\ Len(det_dates) >= 2) =>
        /\ det_result[1] \in {"WEEKLY", "BIWEEKLY"} =>
              /\ det_result[2] = None
              /\ OnWeekday(det_result[3]) >= 1
              /\ \A w \in 0..6 : OnWeekday(det_result[3]) >= OnWeekday(w)
        /\ det_result[1] \in {"MONTHLY", "QUARTERLY"} =>
              /\ det_result[3] = None
              /\ OnDay(det_result[2]) >= 1
              /\ \A d \in 1..31 : OnDay(det_result[2]) >= OnDay(d)
        /\ det_result[1] = "ANNUAL" =>
              /\ det_result[3] = None
              /\ det_result[2] = DayOf(Earliest)
        /\ (Len(det_dates) = 3 /\ SeqToSet(det_dates) = Fifteenths) =>
              /\ det_result = <<"MONTHLY", 15, None>>
              /\ RuleConfidence(Len(det_dates)) > 50

\* The three 15ths have been classified, given latest first.
C15_Witness ==
    /\ Detected
    /\ det_dates = <<Ord(2024, 3, 15), Ord(2024, 1, 15), Ord(2024, 2, 15)>>
    /\ det_result = <<"MONTHLY", 15, None>>

\* The day fields of a candidate agree with its recurrence.
DayFieldsAgree(c) ==
    /\ c.day_of_month # None => c.recurrence \in {"MONTHLY", "QUARTERLY", "ANNUAL"}
    /\ c.day_of_week # None => c.recurrence \in {"WEEKLY", "BIWEEKLY"}
    /\ ~(c.day_of_month # None /\ c.day_of_week # None)
    /\ c.recurrence = "ONETIME" => (c.day_of_month = None /\ c.day_of_week = None)

\* C16: every candidate returned by analyze, rule-based or AI-assisted, has
\* day_of_month set only if its recurrence is MONTHLY, QUARTERLY or ANNUAL,
\* day_of_week set only if it is WEEKLY or BIWEEKLY, and never both.
C16_DayFieldsMatchRecurrence ==
    (AnalyzeDone /\ an_result.exc = NoExc) =>
        \A i \in 1..Len(an_result.analyzed) : DayFieldsAgree(an_result.analyzed[i])

\* An AI item that gave both a day of month and a day of week came back as a
\* WEEKLY candidate with the weekday only.
C16_Witness ==
    /\ AnalyzeDone
    /\ an_result.exc = NoExc
    /\ ~an_result.used_fallback
    /\ \E i \in 1..Len(ai_out.items) :
          /\ ai_out.items[i].day_of_month # None
          /\ ai_out.items[i].day_of_week # None
    /\ \E i \in 1..Len(an_result.analyzed) :
          /\ an_result.analyzed[i].recurrence = "WEEKLY"
          /\ an_result.analyzed[i].day_of_week = 6
          /\ an_result.analyzed[i].day_of_month = None

(***************************************************************************)
(* AI-result validation's contract                                         *)
(***************************************************************************)
\* The item names something and carries a parseable, strictly positive amount.
Survives(item) ==
    /\ item.suggested_name # ""
    /\ item.has_amount
    /\ item.average_amount # None
    /\ item.average_amount > 0

\* The positions of the items that survive, in order.
Survivors == Ascending({ i \in 1..Len(val_items) : Survives(val_items[i]) })

\* C17: every item that survives AI-result validation has a category of the
\* closed set (an unrecognized value becomes OTHER), a recurrence of the
\* closed set (an unrecognized value becomes MONTHLY), confidence in [0,1],
\* day_of_month absent or in [1,31], day_of_week absent or in [0,6] and a
\* strictly positive amount; an item whose amount is missing, unparseable or
\* not positive is discarded without affecting the other items.
C17_ValidatedItemsNormalized ==
    val_pc = "done" =>
        /\ Len(val_out) = Len(Survivors)
        /\ \A k \in 1..Len(val_out) :
              LET out  == val_out[k]
                  item == val_items[Survivors[k]]
              IN  /\ out.suggested_name = item.suggested_name
                  /\ out.average_amount = item.average_amount
                  /\ out.average_amount > 0
                  /\ out.category \in Categories
                  /\ out.category # "OTHER" => out.category = Upper(item.category)
                  /\ Upper(item.category) \in Categories => out.category = Upper(item.category)
                  /\ out.recurrence \in Recurrences
                  /\ Upper(item.recurrence) \in Recurrences => out.recurrence = Upper(item.recurrence)
                  /\ Upper(item.recurrence) \notin Recurrences => out.recurrence = "MONTHLY"
                  /\ out.confidence \in 0..100
                  /\ (out.day_of_month = None \/ out.day_of_month \in 1..31)
                  /\ (out.day_of_week = None \/ out.day_of_week \in 0..6)

\* A discarded item stood before one with an unknown category and recurrence
\* and an out-of-range confidence and day, and that one came out normalized.
C17_Witness ==
    /\ val_pc = "done"
    /\ Len(val_items) = 2
    /\ val_items[1].has_amount /\ val_items[1].average_amount = None
    /\ val_items[2].category = "streaming"
    /\ Len(val_out) = 1
    /\ val_out[1].category = "OTHER"
    /\ val_out[1].recurrence = "MONTHLY"
    /\ val_out[1].confidence = 100
    /\ val_out[1].day_of_month = 31

(***************************************************************************)
(* The CSV path's contract                                                 *)
(***************************************************************************)
CsvDone == csv_pc = "done"

DataRows == Tail(csv_rows)

\* The header has a debit and a credit column and no unified amount column.
DebitCreditLayout ==
    /\ csv_columns["date"] # None
    /\ csv_columns["description"] # None
    /\ csv_columns["amount"] = None
    /\ csv_columns["debit"] # None
    /\ csv_columns["credit"] # None

\* The row has a cell at the column of the role.
HasCell(row, role) == csv_columns[role] # None /\ Len(row) > csv_columns[role]

\* The row has a date cell that parses and a description cell that is not blank.
DatedAndDescribed(row) ==
    /\ HasCell(row, "date")
    /\ HasCell(row, "description")
    /\ csv_parse_date(Cell(row, csv_columns["date"])) # None
    /\ Strip(Cell(row, csv_columns["description"])) # ""

\* The cell of the role parses to a value other than zero.
NonZeroCell(row, role) ==
    /\ HasCell(row, role)
    /\ csv_parse_amount(Cell(row, csv_columns[role])).some
    /\ csv_parse_amount(Cell(row, csv_columns[role])).val # 0

\* The cell of the role is empty or parses to zero.
EmptyOrZeroCell(row, role) ==
    /\ HasCell(row, role)
    /\ \/ Cell(row, csv_columns[role]) = ""
       \/ /\ csv_parse_amount(Cell(row, csv_columns[role])).some
          /\ csv_parse_amount(Cell(row, csv_columns[role])).val = 0

IsDebitLine(row) == DatedAndDescribed(row) /\ NonZeroCell(row, "debit")

IsCreditLine(row) ==
    /\ DatedAndDescribed(row)
    /\ EmptyOrZeroCell(row, "debit")
    /\ NonZeroCell(row, "credit")

\* The transaction a debit line stands for: its date, its description and |debit|.
DebitOf(row) ==
    ParsedTransaction(csv_parse_date(Cell(row, csv_columns["date"])),
                      Strip(Cell(row, csv_columns["description"])),
                      Abs(csv_parse_amount(Cell(row, csv_columns["debit"])).val))

\* The row reaches every detected column.
ReachesAllColumns(row) ==
    \A role \in DOMAIN csv_columns : csv_columns[role] # None => HasCell(row, role)

\* How often the transaction t occurs in what parse_csv returned.
TimesReturned(t) == Cardinality({ j \in 1..Len(csv_transactions) : csv_transactions[j] = t })

\* Every data row among `lines` that is a debit line yields its transaction,
\* once per row; and a file of nothing but such debit lines and credit lines
\* yields one transaction per debit line and none per credit line.
DebitLinesYield(lines) ==
    /\ \A i \in lines :
          TimesReturned(DebitOf(DataRows[i])) >=
              Cardinality({ k \in lines : DebitOf(DataRows[k]) = DebitOf(DataRows[i]) })
    /\ (\A i \in 1..Len(DataRows) : i \in lines \/ IsCreditLine(DataRows[i])) =>
          Len(csv_transactions) = Cardinality(lines)

TheHeader == <<"Date", "Description", "Debit", "Credit">>

\* The two files of the example.
TheExample ==
    /\ csv_rows = <<TheHeader, <<"2024-01-15", "NETFLIX.COM", "15.99", "">> >> =>
          csv_transactions = <<ParsedTransaction(Ord(2024, 1, 15), "NETFLIX.COM", 15990)>>
    /\ csv_rows = <<TheHeader, <<"2024-01-15", "NETFLIX.COM", "", "15.99">> >> =>
          csv_transactions = <<>>

\* The statement of C18 as written: every dated and described row whose
\* debit cell parses to a non-zero value yields its transaction.
C18_AsStated ==
    (CsvDone /\ DebitCreditLayout) =>
        /\ DebitLinesYield({ i \in 1..Len(DataRows) : IsDebitLine(DataRows[i]) })
        /\ TheExample

\* C18 (amended): with separate debit and credit columns and no unified
\* amount column, a data row that reaches every detected column and has a
\* valid date and description yields exactly one transaction with amount
\* |debit| when its debit cell parses to a non-zero value, and no transaction
\* when its debit cell is empty or zero and its credit cell is non-zero; so
\* Date, Description, Debit, Credit over 2024-01-15, NETFLIX.COM, 15.99, (empty)
\* gives one transaction of 15.99 and the same value under Credit gives none.
C18_DebitUsedCreditDropped ==
    (CsvDone /\ DebitCreditLayout) =>
        /\ DebitLinesYield({ i \in 1..Len(DataRows) :
                               IsDebitLine(DataRows[i]) /\ ReachesAllColumns(DataRows[i]) })
        /\ TheExample

\* A negative debit and a credit were read: one transaction, the debit's magnitude.
C18_Witness ==
    /\ CsvDone
    /\ csv_rows = <<TheHeader, <<"2024-01-05", "SALARY", "0", "2500.00">>,
                    <<"2024-01-10", "RENT", "-1,200.00", "0">> >>
    /\ csv_error = ""
    /\ csv_transactions = <<ParsedTransaction(Ord(2024, 1, 10), "RENT", 1200000)>>

\* The positions, counted from 0, of the headers that match the role.
Matching(role) ==
    { i \in 0..(Len(csv_rows[1]) - 1) : match_column(csv_rows[1][i + 1], role) }

\* Each role has the first header that matches it, and None when none does.
FirstMatchPerRole ==
    \A role \in DOMAIN csv_columns :
        csv_columns[role] = IF Matching(role) = {} THEN None ELSE SetMin(Matching(role))

\* The header has no debit/credit pair: one of the two columns is missing.
NoDebitCreditPair == Matching("debit") = {} \/ Matching("credit") = {}

MissingColumnErrors == {NoDateColumnError, NoDescriptionColumnError, NoAmountColumnError}

\* C19: CSV parsing fails with the missing-required-column error if the
\* header has no date column, or no description column, or has neither an
\* amount column nor a debit/credit pair of columns; each role is assigned
\* the first header matching its patterns, and a header assigned to one role
\* is not assigned to another.
C19_MissingColumnFails ==
    (CsvDone /\ Len(csv_rows) >= 2) =>
        /\ FirstMatchPerRole
        /\ \A r1, r2 \in DOMAIN csv_columns :
              (r1 # r2 /\ csv_columns[r1] # None) => csv_columns[r1] # csv_columns[r2]
        /\ Matching("date") = {} => csv_error = NoDateColumnError
        /\ (Matching("date") # {} /\ Matching("description") = {}) =>
              csv_error = NoDescriptionColumnError
        /\ (Matching("amount") = {} /\ NoDebitCreditPair) => csv_error \in MissingColumnErrors

\* C19 (amended): on a file of at least two rows, CSV parsing fails with the
\* missing-required-column error exactly if the header has no date column,
\* or no description column, or has none of an amount, a debit and a credit
\* column (a debit column alone, or a credit column alone, passes); each
\* role is assigned the first header matching its patterns, and a header
\* assigned to one role is not assigned to another.
C19_MissingColumnCheck ==
    (CsvDone /\ Len(csv_rows) >= 2) =>
        /\ FirstMatchPerRole
        /\ \A r1, r2 \in DOMAIN csv_columns :
              (r1 # r2 /\ csv_columns[r1] # None) => csv_columns[r1] # csv_columns[r2]
        /\ Matching("date") = {} => csv_error = NoDateColumnError
        /\ (Matching("date") # {} /\ Matching("description") = {}) =>
              csv_error = NoDescriptionColumnError
        /\ csv_error \in MissingColumnErrors <=>
              \/ Matching("date") = {}
              \/ Matching("description") = {}
              \/ (Matching("amount") = {} /\ Matching("debit") = {} /\ Matching("credit") = {})

\* Two headers matched the date patterns, the first took the role, and the
\* file failed for want of a description column.
C19_Witness ==
    /\ CsvDone
    /\ Len(csv_rows) = 2
    /\ csv_rows[1] = <<"Posted Date", "Date", "Amount">>
    /\ csv_columns["date"] = 0
    /\ csv_error = NoDescriptionColumnError

\* The header passes the column check.
ValidHeader ==
    /\ Matching("date") # {}
    /\ Matching("description") # {}
    /\ (Matching("amount") # {} \/ Matching("debit") # {} \/ Matching("credit") # {})

\* The columns detect_columns finds, read off the header by first match.
ColumnOf(role) == IF Matching(role) = {} THEN None ELSE SetMin(Matching(role))

\* The cell of the row under the column of the role, parsed as an amount.
AmountUnder(row, role) ==
    IF ColumnOf(role) = None \/ Len(row) <= ColumnOf(role) THEN NoAmount
    ELSE csv_parse_amount(Cell(row, ColumnOf(role)))

\* The outgoing amount of the row: the unified amount when the header has
\* an amount column, else the magnitude of a non-zero debit.
OutgoingAmount(row) ==
    IF ColumnOf("amount") # None THEN AmountUnder(row, "amount")
    ELSE IF AmountUnder(row, "debit").some /\ AmountUnder(row, "debit").val # 0
    THEN SomeAmount(Abs(AmountUnder(row, "debit").val))
    ELSE NoAmount

TooShort(row) == \E role \in DOMAIN NoColumns : ColumnOf(role) # None /\ Len(row) <= ColumnOf(role)

BadDate(row) == csv_parse_date(Cell(row, ColumnOf("date"))) = None

BlankDescription(row) == Strip(Cell(row, ColumnOf("description"))) = ""

\* With no amount column, a row with no usable debit and a non-zero credit
\* is an incoming line: it is left out, and is no defect.
IncomingLine(row) ==
    /\ ColumnOf("amount") = None
    /\ ~OutgoingAmount(row).some
    /\ AmountUnder(row, "credit").some
    /\ AmountUnder(row, "credit").val # 0

\* A defective row: too short for the detected columns, or its date does not
\* parse, or its description is empty, or its amount does not parse or is
\* not positive.
Defective(row) ==
    \/ TooShort(row)
    \/ BadDate(row)
    \/ BlankDescription(row)
    \/ (~IncomingLine(row) /\ (~OutgoingAmount(row).some \/ OutgoingAmount(row).val <= 0))

Yields(row) == ~Defective(row) /\ ~IncomingLine(row)

YieldOf(row) ==
    ParsedTransaction(csv_parse_date(Cell(row, ColumnOf("date"))),
                      Strip(Cell(row, ColumnOf("description"))),
                      OutgoingAmount(row).val)

RulesDone == rule_pc = "done"

RulesReturned == RulesDone /\ rule_result.exc = NoExc

\* The groups of the input, read off the input: the non-empty normalized
\* keys, the lines of a key, its first line, its descriptions.
RuleKeys ==
    { normalize_description(rule_txs[i].description) : i \in 1..Len(rule_txs) } \ {""}

LinesOf(key) ==
    { i \in 1..Len(rule_txs) : normalize_description(rule_txs[i].description) = key }

Representative(key) == rule_txs[SetMin(LinesOf(key))].description

GroupDescriptions(key) == { rule_txs[i].original_description : i \in LinesOf(key) }

\* The candidates returned for the group of the key.
CandidatesOf(key) ==
    { i \in 1..Len(rule_result.results) :
        rule_result.results[i].original_descriptions = GroupDescriptions(key) }

ExclusionMatches(description) == \E p \in EXCLUDE_PATTERNS : p \in Search(description)

KeywordsOf(category) ==
    UNION { CATEGORY_KEYWORDS[i].patterns :
              i \in { k \in 1..Len(CATEGORY_KEYWORDS) : CATEGORY_KEYWORDS[k].category = category } }

KeywordMatches(description, category) ==
    \E p \in KeywordsOf(category) : p \in Search(description)

PriorityOrder == <<"LOAN", "SUBSCRIPTION", "INVESTMENT", "INSURANCE", "UTILITY">>

\* The first category of the priority order with a matching keyword, else OTHER.
CategoryByPriority(description) ==
    LET hits == { i \in 1..Len(PriorityOrder) : KeywordMatches(description, PriorityOrder[i]) }
    IN  IF hits = {} THEN "OTHER" ELSE PriorityOrder[SetMin(hits)]

\* C21: rule-based classification of a group's representative description is
\* decided in this order: if any exclusion pattern matches, the group is
\* dropped entirely even if a category keyword also matches; otherwise the
\* category is the first of LOAN, SUBSCRIPTION, INVESTMENT, INSURANCE, UTILITY
\* that has a matching keyword; otherwise OTHER.
C21_ClassifiedInOrder ==
    RulesReturned =>
        \A key \in RuleKeys :
            /\ ExclusionMatches(Representative(key)) => CandidatesOf(key) = {}
            /\ \A i \in CandidatesOf(key) :
                  rule_result.results[i].category = CategoryByPriority(Representative(key))

\* A ride-hailing membership (exclusion and SUBSCRIPTION keyword) was dropped
\* and a home loan insurance (LOAN and INSURANCE keywords) came out as LOAN.
C21_Witness ==
    /\ RulesReturned
    /\ Len(rule_txs) = 2
    /\ rule_txs[1].description = "UBER ONE MEMBERSHIP"
    /\ rule_txs[2].description = "HOME LOAN INSURANCE"
    /\ Len(rule_result.results) = 1
    /\ rule_result.results[1].category = "LOAN"

\* The group of the key is one the classifier keeps: not excluded, and
\* either in a category other than OTHER or of two lines at least.
Qualifies(key) ==
    /\ ~ExclusionMatches(Representative(key))
    /\ \/ CategoryByPriority(Representative(key)) # "OTHER"
       \/ Cardinality(LinesOf(key)) >= 2

\* C22: the rule-based classifier returns exactly one candidate for each
\* transaction group that is not excluded and that is either classified in a
\* category other than OTHER (even with a single occurrence) or has at least
\* 2 occurrences; a group classified OTHER with a single occurrence never
\* produces a candidate, and each candidate's occurrence_count equals its
\* group's size.
C22_OneCandidatePerKeptGroup ==
    RulesDone =>
        /\ \A key \in RuleKeys :
              /\ Cardinality(CandidatesOf(key)) = (IF Qualifies(key) THEN 1 ELSE 0)
              /\ \A i \in CandidatesOf(key) :
                    rule_result.results[i].occurrence_count = Cardinality(LinesOf(key))
        /\ Len(rule_result.results) = Cardinality({ key \in RuleKeys : Qualifies(key) })

(***************************************************************************)
(* The upload operation's contract                                         *)
(***************************************************************************)
UploadDone == up_pc = "done"

ParsedSuccessfully == up_parse.error = ""

\* C23: after a statement has been parsed successfully, the upload operation
\* returns a successful preview carrying the analyzer's candidates and its
\* used_fallback flag; when the AI is unavailable and the rule-based fallback
\* also produces nothing, the caller gets a successful response with an empty
\* candidate list and the warning "No recurring bills detected", never an
\* error.
C23_PreviewAfterParse ==
    (UploadDone /\ ParsedSuccessfully /\ up_analysis.exc = NoExc) =>
        /\ up_response.status = 200
        /\ up_response.success
        /\ up_response.analyzed_bills = up_analysis.analyzed
        /\ up_response.used_fallback = up_analysis.used_fallback
        /\ (up_ai.kind = "unavailable" /\ up_analysis.analyzed = <<>>) =>
              /\ up_response.analyzed_bills = <<>>
              /\ \E i \in 1..Len(up_response.parsing_warnings) :
                    up_response.parsing_warnings[i] = NoBillsWarning

\* The sum of the amounts of the lines of the key, in thousandths.
RECURSIVE GroupTotal(_)
GroupTotal(lines) ==
    IF lines = {} THEN 0
    ELSE LET i == SetMin(lines) IN rule_txs[i].amount + GroupTotal(lines \ {i})

\* C24: for every non-empty list of raw transactions whose amounts are
\* strictly positive decimals, rule-based classification completes without
\* error and every candidate's average_amount, the mean of its group's
\* amounts rounded to 2 decimal places, is strictly positive (including
\* groups whose amounts are below 0.005).
C24_AveragePositive ==
    (RulesDone /\ rule_txs # <<>> /\ \A i \in 1..Len(rule_txs) : rule_txs[i].amount > 0) =>
        /\ rule_result.exc = NoExc
        /\ \A key \in RuleKeys : \A i \in CandidatesOf(key) :
              /\ rule_result.results[i].average_amount > 0
              /\ rule_result.results[i].average_amount =
                    10 * RoundedCents(GroupTotal(LinesOf(key)), Cardinality(LinesOf(key)))

(***************************************************************************)
(* The text scan's contract                                                *)
(***************************************************************************)
ScanDone == scan_pc = "done"

\* Lines are counted from 0, as the scan counts them.
LineAt(k) == scan_lines[k + 1]

LineIndices == 0..(Len(scan_lines) - 1)

WithdrawalsHeading(line) == {"withdrawal", "subtraction"} \subseteq Markers(line.body)

DepositsHeading(line) ==
    ~WithdrawalsHeading(line) /\ {"deposit", "addition"} \subseteq Markers(line.body)

ServiceFeeLine(line) ==
    /\ ~WithdrawalsHeading(line)
    /\ ~DepositsHeading(line)
    /\ Markers(line.body) \cap {"service fee", "total service"} # {}

\* The most recent heading or service-fee line up to line k, line k itself
\* included, is a withdrawals heading.
InWithdrawalsAt(k) ==
    LET turns == { h \in 0..k : \/ WithdrawalsHeading(LineAt(h))
                                \/ DepositsHeading(LineAt(h))
                                \/ ServiceFeeLine(LineAt(h)) }
    IN  turns # {} /\ WithdrawalsHeading(LineAt(SetMax(turns)))

\* A dated line: it starts with a date that parses, and is no heading.
DatedAt(k) ==
    /\ StartsWithDate(LineAt(k))
    /\ pdf_parse_date(LineAt(k).date) # None
    /\ ~WithdrawalsHeading(LineAt(k))
    /\ ~DepositsHeading(LineAt(k))

\* What ends the search for the amount of a dated line: a new dated line, a
\* blank line, a section or page boundary line.
StopsSearch(line) ==
    \/ StartsWithDate(line)
    \/ IsBlankLine(line)
    \/ Markers(line.body) \cap {"total ", "continued", "service fee", "page "} # {}

\* The first amount-bearing line among the 5 lines after line k, with no
\* dated, blank or boundary line before it; None when there is none.
FirstBearer(k) ==
    LET bearers == { j \in (k + 1)..(k + 5) :
                        /\ j \in LineIndices
                        /\ LineAt(j).amount # ""
                        /\ \A h \in (k + 1)..j : ~StopsSearch(LineAt(h)) }
    IN  IF bearers = {} THEN None ELSE SetMin(bearers)

\* The lines a dated line without trailing amount consumes as continuation.
ConsumedBy(k) ==
    IF LineAt(k).amount # "" \/ FirstBearer(k) = None THEN {}
    ELSE (k + 1)..FirstBearer(k)

\* The amount string that belongs to the dated line k, "" when it has none.
AmountStrFor(k) ==
    IF LineAt(k).amount # "" THEN LineAt(k).amount
    ELSE IF FirstBearer(k) = None THEN ""
    ELSE LineAt(FirstBearer(k)).amount

AmountFor(k) == pdf_parse_amount(AmountStrFor(k))

HasUsableAmount(k) == AmountFor(k).some /\ AmountFor(k).val # 0

\* Some word of the line, or of the lines it consumed, survives cleaning.
DescribedAt(k) ==
    \E h \in {k} \cup ConsumedBy(k) :
        LineAt(h).body # "" /\ clean_description(LineAt(h).body) # ""

\* The transactions the scan appended for line k.
EmittedFor(k) == { n \in 1..Len(scan_src) : scan_src[n] = k }

\* C25 as stated: in the PDF text line-pattern scan, a dated line with a
\* parseable non-zero amount yields a transaction if and only if the amount
\* is negative or the most recent section heading seen so far is a
\* withdrawals heading (no deposits heading or service-fee line since); a
\* positive amount inside a deposits block or before any heading is dropped;
\* every emitted amount is the positive magnitude.
C25_AsStated ==
    ScanDone =>
        \A k \in LineIndices :
            (DatedAt(k) /\ HasUsableAmount(k)) =>
                /\ EmittedFor(k) # {} <=> (AmountFor(k).val < 0 \/ InWithdrawalsAt(k))
                /\ \A n \in EmittedFor(k) :
                      /\ scan_transactions[n].amount > 0
                      /\ scan_transactions[n].amount = Abs(AmountFor(k).val)

\* C25: in the PDF text line-pattern scan, a dated line whose description is
\* not empty after cleaning and which has a parseable non-zero amount yields
\* a transaction if and only if the amount is negative or the most recent
\* section heading seen so far is a withdrawals heading (no deposits heading
\* or service-fee line since); a positive amount inside a deposits block or
\* before any heading is dropped; every emitted amount is the positive
\* magnitude.
C25_DebitBySignOrSection ==
    ScanDone =>
        \A k \in LineIndices :
            /\ (DatedAt(k) /\ HasUsableAmount(k) /\ DescribedAt(k)) =>
                  (Cardinality(EmittedFor(k)) = 1 <=>
                      (AmountFor(k).val < 0 \/ InWithdrawalsAt(k)))
            /\ (DatedAt(k) /\ HasUsableAmount(k) /\ AmountFor(k).val > 0
                  /\ ~InWithdrawalsAt(k)) => EmittedFor(k) = {}
            /\ \A n \in EmittedFor(k) :
                  /\ scan_transactions[n].amount > 0
                  /\ scan_transactions[n].amount = Abs(AmountFor(k).val)

\* The scan is over for a text with a withdrawals heading, a positive dated
\* amount under it and a deposits heading after: the amount came out.
C25_Witness ==
    /\ ScanDone
    /\ scan_lines = << Line("", "Withdrawals and other subtractions", ""),
                       Line("01/15/2024", "NETFLIX.COM", "15.99"),
                       Line("", "Deposits and other additions", "") >>
    /\ Len(scan_transactions) = 1
    /\ scan_transactions[1].amount = 15990
    /\ scan_src = <<1>>

\* The lines that some dated line consumed as continuation.
Consumed == UNION { ConsumedBy(k) : k \in { h \in LineIndices : DatedAt(h) } }

\* The dated line k yields one transaction with the amount found for it, or
\* none: what the sign and section rule and the description allow.
YieldsByRule(k) ==
    IF HasUsableAmount(k) /\ DescribedAt(k) /\ (AmountFor(k).val < 0 \/ InWithdrawalsAt(k))
    THEN /\ Cardinality(EmittedFor(k)) = 1
         /\ \A n \in EmittedFor(k) : scan_transactions[n].amount = Abs(AmountFor(k).val)
    ELSE EmittedFor(k) = {}

ScanResult ==
    ScanDone =>
        /\ \A k \in LineIndices :
              /\ (DatedAt(k) /\ LineAt(k).amount = "") =>
                    /\ FirstBearer(k) = None => EmittedFor(k) = {}
                    /\ FirstBearer(k) # None => YieldsByRule(k)
              /\ (DatedAt(k) /\ LineAt(k).amount # "") => YieldsByRule(k)
              /\ ~StartsWithDate(LineAt(k)) => EmittedFor(k) = {}
        /\ \A n \in 1..Len(scan_src) : scan_src[n] \notin Consumed

RelinkDone == rl_pc = "done"

\* The normalized forms of the declared descriptions.
DeclaredKeys == { normalize_description(rl_descs[i]) : i \in 1..Len(rl_descs) }

KeyOfTx(i) == normalize_description(rl_txs[i].description)

\* The input transactions of the groups whose key is a declared key.
ExactlyLinked == { i \in 1..Len(rl_txs) : KeyOfTx(i) # "" /\ KeyOfTx(i) \in DeclaredKeys }

\* The input transactions of the groups related to a declared key by
\* substring, in either direction.
FuzzilyLinked ==
    { i \in 1..Len(rl_txs) :
        /\ KeyOfTx(i) # ""
        /\ \E d \in DeclaredKeys : IsSubstring(d, KeyOfTx(i)) \/ IsSubstring(KeyOfTx(i), d) }

LinkedByOrder ==
    IF ExactlyLinked # {} THEN { rl_txs[i] : i \in ExactlyLinked }
    ELSE IF FuzzilyLinked # {} THEN { rl_txs[i] : i \in FuzzilyLinked }
    ELSE { rl_txs[1] }

InputDates == { rl_txs[i].date : i \in 1..Len(rl_txs) }

\* C27: when AI candidates are used, each candidate is re-linked in a fixed
\* order: the groups whose normalized key exactly equals a normalized
\* declared description; only if that finds nothing, the groups related by
\* substring in either direction; only if that also finds nothing, the single
\* first input transaction as placeholder.  Consequently every AI-sourced
\* candidate has occurrence_count >= 1 and a date_range with first <= last
\* whose two dates are dates of input transactions.
C27_RelinkedInOrder ==
    RelinkDone =>
        /\ rl_result.exc = NoExc
        /\ ~rl_result.used_fallback
        /\ Len(rl_result.analyzed) = 1
        /\ SeqToSet(rl_matching) = LinkedByOrder
        /\ LET c == rl_result.analyzed[1]
           IN  /\ c.occurrence_count = Len(rl_matching)
               /\ c.occurrence_count >= 1
               /\ c.date_range[1] <= c.date_range[2]
               /\ c.date_range[1] \in { t.date : t \in LinkedByOrder }
               /\ c.date_range[2] \in { t.date : t \in LinkedByOrder }
               /\ { c.date_range[1], c.date_range[2] } \subseteq InputDates

\* The item declared "netflix": no group has that key, the group
\* netflix.com holds it as a substring and was linked, the plumber was not.
C27_Witness ==
    /\ RelinkDone
    /\ rl_descs = <<"netflix">>
    /\ Len(rl_txs) = 2
    /\ rl_txs[1].description = "JOES PLUMBING"
    /\ rl_txs[2].description = "NETFLIX.COM"
    /\ rl_matching = <<rl_txs[2]>>
    /\ rl_result.analyzed[1].occurrence_count = 1

\* C29: when AI candidates are used, no input transaction is counted more
\* than once within one candidate: each candidate's occurrence_count is at
\* most the number of input transactions, for any list of declared
\* original_descriptions (including descriptions that repeat, that normalize
\* to the same key, or that normalize to the empty string).
C29_CountedOnce ==
    RelinkDone =>
        /\ rl_result.exc = NoExc
        /\ \A n \in 1..Len(rl_result.analyzed) :
              rl_result.analyzed[n].occurrence_count <= Len(rl_txs)

\* The header has a unified amount column and neither a debit nor a credit
\* column.
UnifiedLayout ==
    /\ csv_columns["date"] # None
    /\ csv_columns["description"] # None
    /\ csv_columns["amount"] # None
    /\ csv_columns["debit"] = None
    /\ csv_columns["credit"] = None

\* C28: with a single unified amount column (no debit or credit column), a
\* data row whose amount is negative is treated as a debit and emitted as a
\* transaction whose amount is the absolute value, and a row whose amount is
\* positive is emitted unchanged.
C28_UnifiedAmountBySign ==
    (CsvDone /\ UnifiedLayout) =>
        \A i \in 1..Len(DataRows) :
            LET row    == DataRows[i]
                amount == csv_parse_amount(Cell(row, csv_columns["amount"]))
            IN  (ReachesAllColumns(row) /\ DatedAndDescribed(row)
                    /\ amount.some /\ amount.val # 0) =>
                    TimesReturned(
                        ParsedTransaction(
                            csv_parse_date(Cell(row, csv_columns["date"])),
                            Strip(Cell(row, csv_columns["description"])),
                            Abs(amount.val))) >= 1

(***************************************************************************)
(* The amount parsers' contract                                            *)
(***************************************************************************)
AmountDone == amt_pc = "done"

\* The digits of the groups from..to, in order.
RECURSIVE DigitsOf(_, _, _)
DigitsOf(groups, from, to) ==
    IF from > to THEN <<>> ELSE groups[from] \o DigitsOf(groups, from + 1, to)

\* The separators of the text that are commas, and those that are points.
CommasOf(parts) == { i \in 1..Len(parts.seps) : parts.seps[i] = "," }

PointsOf(parts) == { i \in 1..Len(parts.seps) : parts.seps[i] = "." }

\* The separators that stand for the decimal point: with both kinds, every
\* occurrence of the kind that occurs last; with commas only, the single
\* comma when at most 2 characters follow it; with points only, the points.
DecimalPoints(parts) ==
    LET commas == CommasOf(parts)
        points == PointsOf(parts)
        n      == Len(parts.groups)
    IN  IF commas # {} /\ points # {}
        THEN IF SetMax(commas) > SetMax(points) THEN commas ELSE points
        ELSE IF commas # {}
        THEN IF /\ Cardinality(commas) = 1
                /\ Len(DigitsOf(parts.groups, SetMax(commas) + 1, n))
                     + Len(parts.suffix) <= 2
             THEN commas
             ELSE {}
        ELSE points

\* The number the text stands for: no number with a sign behind the digits,
\* with two decimal points or with no digit; otherwise the digits before
\* and after the decimal point, negative with a leading minus sign.
AmountMeant(parts) ==
    LET at == DecimalPoints(parts)
        n  == Len(parts.groups)
        d  == IF at = {} THEN n ELSE SetMax(at)
    IN  IF parts.suffix # "" \/ Cardinality(at) > 1 \/ DigitsOf(parts.groups, 1, n) = <<>>
        THEN NoDecimal
        ELSE [some |-> TRUE, neg |-> parts.sign = "-",
              int |-> DigitsOf(parts.groups, 1, d),
              frac |-> DigitsOf(parts.groups, d + 1, n)]

Number(neg, int, frac) == [some |-> TRUE, neg |-> neg, int |-> int, frac |-> frac]

\* C30: the CSV and the PDF parser return the same amount for the same
\* text, and it is the number the text stands for under the separator
\* rule: with both ',' and '.', the later one is the decimal point and the
\* other is stripped (1,234.56 and 1.234,56 give 1234.56); with ',' only,
\* it is the decimal point when there is one comma followed by at most 2
\* digits (12,5 gives 12.5) and a thousands separator otherwise (1,234
\* gives 1234); a leading minus sign is kept.
C30_SeparatorsResolved ==
    AmountDone =>
        /\ amt_csv = amt_pdf
        /\ amt_csv = AmountMeant(amt_parts)
        /\ amt_text = <<"1", ",", "2", "3", "4", ".", "5", "6">>
              => amt_csv = Number(FALSE, <<"1", "2", "3", "4">>, <<"5", "6">>)
        /\ amt_text = <<"1", ".", "2", "3", "4", ",", "5", "6">>
              => amt_csv = Number(FALSE, <<"1", "2", "3", "4">>, <<"5", "6">>)
        /\ amt_text = <<"1", "2", ",", "5">>
              => amt_csv = Number(FALSE, <<"1", "2">>, <<"5">>)
        /\ amt_text = <<"1", ",", "2", "3", "4">>
              => amt_csv = Number(FALSE, <<"1", "2", "3", "4">>, <<>>)
        /\ amt_text = <<"-", "1", "2", ",", "5">>
              => amt_csv = Number(TRUE, <<"1", "2">>, <<"5">>)

\* Both parsers have read -1.234,56 as minus 1234.56.
C30_Witness ==
    /\ AmountDone
    /\ amt_text = <<"-", "1", ".", "2", "3", "4", ",", "5", "6">>
    /\ amt_csv = Number(TRUE, <<"1", "2", "3", "4">>, <<"5", "6">>)
    /\ amt_pdf = amt_csv

====
